---- MODULE Spec2Model ----
(***************************************************************************)
(* j2pr: the `run` pipeline (src/j2pr/cli.py) over the durable state store *)
(* (src/j2pr/state.py), with the guardrail functions                        *)
(* (src/j2pr/guardrails.py).  Every invocation of `run` is a process that   *)
(* steps through the pipeline one store call or external call at a time.    *)
(***************************************************************************)
EXTENDS Integers, Sequences, FiniteSets, TLC

\* ------------------------------------------------------------------ bounds

\* Number of `run` invocations in a behaviour; invocation p uses run id p
\* (uuid4 gives every invocation a fresh id).
MaxRuns == 2

\* Largest configured guardrails.max_fix_attempts that is explored.
MaxFix == 1

Procs == 1..MaxRuns

Tickets == {"ABC-1"}

Repos == {"repo1", "repo2"}

Urls == {"http://pr/1", "http://pr/2"}

\* The absent value of an optional text column or variable (Python None).
None == "None"

\* ------------------------------------------------------------ state store

NoTicket ==
    [status |-> None, repo |-> None, branch |-> None, pr_url |-> None,
     last_run_id |-> 0, last_error |-> None]

TicketState(status, repo, branch, pr_url, last_run_id, last_error) ==
    [status |-> status, repo |-> repo, branch |-> branch, pr_url |-> pr_url,
     last_run_id |-> last_run_id, last_error |-> last_error]

NoRun ==
    [ticket_key |-> None, status |-> None, repo |-> None, branch |-> None,
     pr_url |-> None, cursor_exit_code |-> None, finished |-> FALSE]

RunState(ticket_key, status, repo, branch, pr_url, cursor_exit_code) ==
    [ticket_key |-> ticket_key, status |-> status, repo |-> repo,
     branch |-> branch, pr_url |-> pr_url,
     cursor_exit_code |-> cursor_exit_code, finished |-> FALSE]

\* Variant: an absent PR URL keeps the stored one.
upsert_ticket_Merge(tbl, key, state) ==
    [tbl EXCEPT ![key] =
        IF state.pr_url = None THEN [state EXCEPT !.pr_url = tbl[key].pr_url]
        ELSE state]

\* INSERT ... ON CONFLICT(ticket_key) DO UPDATE SET every column.
upsert_ticket(tbl, key, state) == [tbl EXCEPT ![key] = state]

\* SELECT * FROM tickets WHERE ticket_key = ?
get_ticket(tbl, key) == tbl[key]

\* INSERT INTO runs.
add_run(tbl, run_id, run) == [tbl EXCEPT ![run_id] = run]

\* Variant: a PR URL already stored for the run is kept.
finish_run_KeepUrl(tbl, run_id, status, pr_url, cursor_exit_code) ==
    IF tbl[run_id].status = None
    THEN tbl
    ELSE [tbl EXCEPT ![run_id] =
            [@ EXCEPT !.status = status,
                      !.pr_url = IF pr_url = None THEN @ ELSE pr_url,
                      !.cursor_exit_code = cursor_exit_code,
                      !.finished = TRUE]]

\* UPDATE runs SET finished_at, status, pr_url, cursor_exit_code WHERE run_id.
finish_run(tbl, run_id, status, pr_url, cursor_exit_code) ==
    IF tbl[run_id].status = None
    THEN tbl
    ELSE [tbl EXCEPT ![run_id] =
            [@ EXCEPT !.status = status, !.pr_url = pr_url,
                      !.cursor_exit_code = cursor_exit_code,
                      !.finished = TRUE]]

\* INSERT INTO locks ... ON CONFLICT(repo) DO UPDATE SET run_id.
set_lock(tbl, repo, run_id) == [tbl EXCEPT ![repo] = run_id]

\* DELETE FROM locks WHERE repo = ?
clear_lock(tbl, repo) == [tbl EXCEPT ![repo] = 0]

\* Variant: a lock row is not seen.
get_lock_Expiring(tbl, repo) == 0

\* SELECT run_id FROM locks WHERE repo = ?  (0: no row)
get_lock(tbl, repo) == tbl[repo]

\* Variant: the rows are counted and not deleted.
clear_all_locks_CountOnly(tbl) ==
    [count |-> Cardinality({r \in DOMAIN tbl : tbl[r] # 0}), locks |-> tbl]

\* DELETE FROM locks; returns the number of rows there were.
clear_all_locks(tbl) ==
    [count |-> Cardinality({r \in DOMAIN tbl : tbl[r] # 0}),
     locks |-> [r \in DOMAIN tbl |-> 0]]

\* -------------------------------------------------------------- guardrails

\* A path and a glob are sequences of segments; a glob segment is a literal
\* or a wildcard.  PurePath.match compares a relative pattern with the path
\* from the right, segment by segment; "**" matches like "*".
SegMatch(seg, pat) == pat \in {"*", "**"} \/ pat = seg

PathMatch(path, pattern) ==
    /\ Len(pattern) > 0
    /\ Len(pattern) <= Len(path)
    /\ \A i \in 1..Len(pattern) :
          SegMatch(path[Len(path) - Len(pattern) + i], pattern[i])

matches_deny_glob(path, globs) ==
    \E i \in 1..Len(globs) : PathMatch(path, globs[i])

\* A diff is the sequence of `git diff --numstat` entries of the working
\* tree: <<added, removed, path>>; `git diff --name-only` lists the paths.
diff_name_only(diff) == [i \in 1..Len(diff) |-> diff[i][3]]

diff_numstat(diff) == diff

RECURSIVE SumLines(_)
SumLines(numstat) ==
    IF numstat = <<>> THEN 0
    ELSE numstat[1][1] + numstat[1][2] + SumLines(Tail(numstat))

\* Variant: the scan stops at the first blocked file.
enforce_deny_globs_First(diff, globs) ==
    LET blocked == SelectSeq(diff_name_only(diff),
                             LAMBDA name : matches_deny_glob(name, globs))
    IN  [ok |-> Len(blocked) = 0,
         blocked |-> IF blocked = <<>> THEN <<>> ELSE <<blocked[1]>>]

\* guardrails.py 17-22
enforce_deny_globs(diff, globs) ==
    LET blocked == SelectSeq(diff_name_only(diff),
                             LAMBDA name : matches_deny_glob(name, globs))
    IN  [ok |-> Len(blocked) = 0, blocked |-> blocked]

\* Variant: a count equal to its limit is a violation.
enforce_diff_limits_AtLimit(diff, max_files, max_lines) ==
    LET files == diff_name_only(diff)
        lines == SumLines(diff_numstat(diff))
    IN  [ok |-> ~(Len(files) >= max_files \/ lines >= max_lines),
         files |-> Len(files), lines |-> lines]

\* guardrails.py 25-31
enforce_diff_limits(diff, max_files, max_lines) ==
    LET files == diff_name_only(diff)
        lines == SumLines(diff_numstat(diff))
    IN  [ok |-> ~(Len(files) > max_files \/ lines > max_lines),
         files |-> Len(files), lines |-> lines]

\* guardrails.deny_globs, max_files_changed and max_diff_lines of the
\* configuration the runs load.
deny_globs == << <<".github", "workflows", "**">>, <<"migrations", "**">> >>

max_files_changed == 2

max_diff_lines == 4

\* The working-tree diffs the agent may leave behind.
CleanDiff == <<>>

SmallDiff == << <<1, 1, <<"src", "app.py">> >> >>

DeniedDiff == << <<1, 0, <<"migrations", "001.sql">> >> >>

\* One file more than max_files_changed allows.
WideDiff == [i \in 1..(max_files_changed + 1) |-> <<1, 0, <<"src", ToString(i)>> >>]

\* One line more than max_diff_lines allows.
LongDiff == << <<max_diff_lines, 1, <<"src", "app.py">> >> >>

Diffs == {CleanDiff, SmallDiff, DeniedDiff, WideDiff, LongDiff}

\* The diffs the commands of a run leave in the worktree.
AgentDiffs == {CleanDiff, SmallDiff, DeniedDiff, WideDiff}

\* The entries `git diff --numstat` prints for the files the guardrail runs
\* change, in the order git lists them (by path).
GuardEntries ==
    << <<0, 1, <<".github", "workflows", "ci.yml">> >>,
       <<2, 0, <<"migrations", "001.sql">> >>,
       <<1, 1, <<"migrations", "a", "001.sql">> >>,
       <<1, 1, <<"src", "app.py">> >> >>

\* The diff in which the files with index in S, of the first i, are changed.
RECURSIVE SubDiff(_, _)
SubDiff(S, i) ==
    IF i = 0 THEN <<>>
    ELSE IF i \in S THEN Append(SubDiff(S, i - 1), GuardEntries[i])
    ELSE SubDiff(S, i - 1)

GuardDiffs == {SubDiff(S, Len(GuardEntries)) : S \in SUBSET (1..Len(GuardEntries))}

\* The values of guardrails.deny_globs the guardrail runs are configured with.
GlobLists ==
    {<<>>, deny_globs, << <<"migrations", "**">> >>,
     << <<"src", "*">>, <<"migrations", "**">> >>,
     << <<"a", "**">> >>}

\* -------------------------------------------------------------- error text

\* str(exc) of the errors the pipeline raises itself.
MsgWorktree == "Worktree not clean"
MsgDenylist == "Command denylist violation"
MsgFooter == "Agent contract missing footer"
MsgTests == "Tests failed"
MsgDenyGlob == "Deny glob violation: migrations/001.sql"
MsgDiffLimits == "Diff limits exceeded: n files, m lines"

\* Error text of collaborators (git, gh, GitHub, Jira, the file system, the
\* store); the second carries text a collaborator may well print.
ExtMsgs == {"unexpected error", "remote hook: Tests failed"}

needs_human_markers ==
    <<"Worktree not clean", "Deny glob violation", "Diff limits exceeded",
      "Agent contract missing footer", "Tests failed", "Repo mapping ambiguous">>

\* `marker in message` for the messages above.
Contains(message, marker) ==
    \/ message = marker
    \/ message = MsgDenyGlob /\ marker = "Deny glob violation"
    \/ message = MsgDiffLimits /\ marker = "Diff limits exceeded"
    \/ message = "remote hook: Tests failed" /\ marker = "Tests failed"
    \/ message = "Repo mapping ambiguous or not allowed"
         /\ marker = "Repo mapping ambiguous"

\* Variant: no message is a case for a human.
_classify_error_Failed(message) == "FAILED"

_classify_error(message) ==
    IF \E i \in 1..Len(needs_human_markers) :
          Contains(message, needs_human_markers[i])
    THEN "NEEDS_HUMAN"
    ELSE "FAILED"

\* Commands are named by kind; a denylist is the set of kinds whose text
\* contains a denied substring.
_denylist_ok(commands, denylist) ==
    IF denylist = {} THEN TRUE
    ELSE ~\E i \in 1..Len(commands) : commands[i] \in denylist

\* ------------------------------------------------------------ collaborators

\* A transcript is a sequence of lines and a line a sequence of tokens: " "
\* is white space, "x" other text, Marker the marker, and the rest JSON text.
Marker == "J2PR_RESULT:"

\* footer.py 8-19, with the defaults parse_footer gives absent fields.
FooterDefaults ==
    [decision |-> "", summary |-> "", changes |-> <<>>, tests |-> <<>>,
     risk |-> "", repo |-> "", branch |-> "", commit_message |-> "",
     notes_for_reviewer |-> "", blocking_reason |-> ""]

\* The JSON texts that are objects, and the object each denotes.
JsonObjects ==
    ("{A}" :> [FooterDefaults EXCEPT !.decision = "done", !.summary = "A",
                                     !.changes = <<"src/app.py">>, !.risk = "low"]) @@
    ("{B}" :> [FooterDefaults EXCEPT !.decision = "done", !.summary = "B",
                                     !.repo = "repo1"]) @@
    ("{d}" :> [decision |-> "blocked"]) @@
    ("{}" :> <<>>)

\* json.loads(raw): the object, or a JSONDecodeError.
json_loads(raw) ==
    IF Len(raw) = 1 /\ raw[1] \in DOMAIN JsonObjects
    THEN [raises |-> None, data |-> JsonObjects[raw[1]]]
    ELSE [raises |-> "Expecting value: line 1 column 1 (char 0)", data |-> <<>>]

RECURSIVE lstrip(_)
lstrip(line) ==
    IF line # <<>> /\ line[1] = " " THEN lstrip(Tail(line)) ELSE line

RECURSIVE rstrip(_)
rstrip(line) ==
    IF line # <<>> /\ line[Len(line)] = " "
    THEN rstrip(SubSeq(line, 1, Len(line) - 1))
    ELSE line

\* str.strip
strip(line) == rstrip(lstrip(line))

\* data.get(field, default)
get(data, field, default) == IF field \in DOMAIN data THEN data[field] ELSE default

\* footer.py 22-38.  An optional footer is <<>> (None) or <<footer>>.
parse_footer(line) ==
    IF ~(line # <<>> /\ line[1] = Marker)
    THEN [raises |-> None, footer |-> <<>>]
    ELSE LET raw == strip(Tail(line))
             loaded == json_loads(raw)
         IN  IF loaded.raises # None
             THEN [raises |-> loaded.raises, footer |-> <<>>]
             ELSE [raises |-> None,
                   footer |-> <<[f \in DOMAIN FooterDefaults |->
                                   get(loaded.data, f, FooterDefaults[f])]>>]

\* agent.py 103-108: the lines are scanned from the last (i) to the first.
RECURSIVE ScanFooter(_, _)
ScanFooter(transcript, i) ==
    IF i = 0
    THEN [raises |-> None, footer |-> <<>>]
    ELSE LET parsed == parse_footer(strip(transcript[i])) IN
         IF parsed.raises # None \/ parsed.footer # <<>>
         THEN parsed
         ELSE ScanFooter(transcript, i - 1)

\* Variant: only the last line of the transcript is looked at.
find_footer_LastLine(transcript) ==
    IF transcript = <<>>
    THEN [raises |-> None, footer |-> <<>>]
    ELSE parse_footer(strip(transcript[Len(transcript)]))

\* agent.py 103-108
find_footer(transcript) == ScanFooter(transcript, Len(transcript))

\* What the agent process does in one invocation: whether it runs past the
\* timeout, whether its process group then exits within the grace period,
\* its return code, and the transcript it writes.
AgentRun(timed_out, exits_in_grace, returncode, transcript) ==
    [timed_out |-> timed_out, exits_in_grace |-> exits_in_grace,
     returncode |-> returncode, transcript |-> transcript]

TextLine == <<"x">>

FooterLine(json) == <<Marker, " ", json>>

PaddedFooterLine(json) == <<" ", Marker, json, " ">>

\* The marker is not at the start of the line.
QuotedLine == <<"x", Marker, "{A}">>

\* Longest transcript, in lines, of the runs that explore transcripts.
MaxLines == 2

Lines ==
    {TextLine, <<" ">>, QuotedLine, FooterLine("{A}"), PaddedFooterLine("{B}"),
     FooterLine("{d}"), FooterLine("{}"), FooterLine("bad")}

Transcripts == UNION {[1..n -> Lines] : n \in 0..MaxLines}

AgentRuns ==
    {AgentRun(FALSE, TRUE, "0", <<FooterLine("{A}"), TextLine>>),
     AgentRun(FALSE, TRUE, "1", <<FooterLine("{A}"), PaddedFooterLine("{B}")>>),
     AgentRun(FALSE, TRUE, "0", <<TextLine>>),
     AgentRun(FALSE, TRUE, "1", <<QuotedLine>>),
     AgentRun(FALSE, TRUE, "0", <<FooterLine("{A}"), FooterLine("bad")>>),
     AgentRun(TRUE, TRUE, "0", <<FooterLine("{A}")>>),
     AgentRun(TRUE, FALSE, "0", <<>>)}

\* str(subprocess.TimeoutExpired) of the second communicate (agent.py 92).
MsgTimeout == "Command timed out after 30 seconds"

\* agent.py 60-109: the result of run_agent, or the exception it lets
\* through; alive: processes of the agent's group outlive the call;
\* written: transcript_path.write_text (line 98) was executed.
run_agent(a) ==
    IF a.timed_out
    THEN IF a.exits_in_grace
         THEN [raises |-> None, exit_code |-> "-1", footer |-> <<>>, alive |-> FALSE,
               written |-> TRUE]
         ELSE [raises |-> MsgTimeout, exit_code |-> None, footer |-> <<>>,
               alive |-> TRUE, written |-> FALSE]
    ELSE LET scanned == find_footer(a.transcript) IN
         [raises |-> scanned.raises,
          exit_code |-> IF scanned.raises = None THEN a.returncode ELSE None,
          footer |-> scanned.footer, alive |-> FALSE, written |-> TRUE]

\* What the PR host answers to a lookup: an open PR, none, or an error.
LookupAnswers == Urls \cup {None, "error"}

\* gh pr list: a non-zero return code gives no PR.
find_pr_with_gh(answer) ==
    IF answer = "error"
    THEN [raises |-> None, pr_url |-> None]
    ELSE [raises |-> None, pr_url |-> answer]

\* GitHub search API: raise_for_status raises on an error.
find_pr_with_rest(answer, message) ==
    IF answer = "error"
    THEN [raises |-> message, pr_url |-> None]
    ELSE [raises |-> None, pr_url |-> answer]

find_pr(use_gh_cli, answer, message) ==
    IF use_gh_cli THEN find_pr_with_gh(answer) ELSE find_pr_with_rest(answer, message)

\* ------------------------------------------------------------------ inputs

\* ------------------------------------------------- mapping.py: inference

\* The highest score a repository gets in the model.
MaxScore == 2

\* What infer_repo_from_issue works on: the RepoInferenceConfig fields
\* enabled and min_score, whether the ticket text has usable tokens
\* (_extract_tokens), the git repositories under root_dir in the order of
\* iterdir, the total (_score_repo_name + _score_repo_content) found for each
\* repository, and how many repositories are scored before max_seconds run
\* out (in_time).
RepoInference(enabled, min_score, tokens, root_dir, total, in_time) ==
    [enabled |-> enabled, min_score |-> min_score, tokens |-> tokens,
     root_dir |-> root_dir, total |-> total, in_time |-> in_time]

NoInference ==
    RepoInference(FALSE, 2, TRUE, <<"repo1", "repo2">>, [r \in Repos |-> 0], 2)

RootDirs == {<<>>, <<"repo1">>, <<"repo2">>, <<"repo1", "repo2">>, <<"repo2", "repo1">>}

\* Every setting with inference enabled and usable tokens, one with
\* inference disabled and one without usable tokens.
Inferences ==
    {RepoInference(TRUE, min_score, TRUE, root_dir, total, in_time) :
        min_score \in {1, 2}, root_dir \in RootDirs,
        total \in [Repos -> 0..MaxScore], in_time \in 0..2}
    \cup {RepoInference(enabled, 1, ~enabled, <<"repo1", "repo2">>,
                        [r \in Repos |-> MaxScore], 2) : enabled \in BOOLEAN}

\* mapping.py 152-173 (max_repos = 0: no cut)
_discover_repos(root_dir, repo_allowlist) ==
    IF repo_allowlist # {}
    THEN SelectSeq(root_dir, LAMBDA r : r \in repo_allowlist)
    ELSE root_dir

\* mapping.py 109-118: the (total, name) pairs of the repositories scored
\* in time whose total is positive, in the order of repo_paths.
RECURSIVE Scored(_, _, _)
Scored(repo_paths, inference, i) ==
    IF i = 0 THEN <<>>
    ELSE LET rest == Scored(repo_paths, inference, i - 1)
             name == repo_paths[i]
         IN  IF i <= inference.in_time /\ inference.total[name] > 0
             THEN Append(rest, <<inference.total[name], name>>)
             ELSE rest

\* scored.sort(key=lambda item: item[0], reverse=True): the index in scored
\* of the pair a stable descending sort puts first.
First(scored) ==
    CHOOSE i \in 1..Len(scored) :
       \A j \in 1..Len(scored) :
          /\ scored[j][1] <= scored[i][1]
          /\ j < i => scored[j][1] < scored[i][1]

\* Variant: on a tie the first of the top repositories is returned.
infer_repo_from_issue_NoTie(repo_allowlist, inference) ==
    IF ~inference.enabled \/ ~inference.tokens THEN None
    ELSE LET repo_paths == _discover_repos(inference.root_dir, repo_allowlist)
             scored == Scored(repo_paths, inference, Len(repo_paths))
         IN  IF scored = <<>> THEN None
             ELSE IF scored[First(scored)][1] < inference.min_score THEN None
             ELSE scored[First(scored)][2]

\* mapping.py 93-128
infer_repo_from_issue(repo_allowlist, inference) ==
    IF ~inference.enabled THEN None
    ELSE IF ~inference.tokens THEN None
    ELSE LET repo_paths == _discover_repos(inference.root_dir, repo_allowlist)
             scored == Scored(repo_paths, inference, Len(repo_paths))
         IN  IF repo_paths = <<>> THEN None
             ELSE IF scored = <<>> THEN None
             ELSE LET top == First(scored) IN
                  IF scored[top][1] < inference.min_score THEN None
                  ELSE IF \E j \in 1..Len(scored) :
                             j # top /\ scored[j][1] = scored[top][1]
                  THEN None
                  ELSE scored[top][2]

\* What one invocation reads of its command line (rerun, force, no_comment)
\* and of the configuration file it loaded (the rest; deny_globs,
\* max_files_changed and max_diff_lines are the guardrails fields of these
\* names).  format_command is
\* TRUE when a format command is configured, test_auto when test_command is
\* "auto"; command_denylist is the set of command kinds whose text contains
\* a denied substring.  The file and the command line do not change during a
\* run: the value of a field is fixed when the run first reads it (known),
\* and every later read returns it.
InputDefaults ==
    [rerun |-> FALSE, force |-> FALSE, no_comment |-> FALSE,
     require_clean_worktree |-> TRUE, require_tests |-> TRUE,
     max_fix_attempts |-> 1, format_command |-> FALSE,
     command_denylist |-> {}, comment_on_pr |-> FALSE, use_gh_cli |-> TRUE,
     test_auto |-> TRUE, repo_allowlist |-> {"repo1"},
     agent |-> AgentRun(FALSE, TRUE, "0", <<FooterLine("{A}")>>), diff |-> SmallDiff,
     tests_pass |-> TRUE, by_branch |-> None, by_key |-> None,
     create |-> "http://pr/1", deny_globs |-> deny_globs,
     single_repo_only |-> FALSE, repo_inference |-> NoInference,
     placement |-> "unstaged",
     max_files_changed |-> max_files_changed, max_diff_lines |-> max_diff_lines]

NoInput == [known |-> {}, val |-> InputDefaults]

\* The input of an invocation of which only the fields in free are open:
\* the others are read as the defaults above.
Preset(free) == [known |-> DOMAIN InputDefaults \ free, val |-> InputDefaults]

\* The fields that hold what the collaborators of a run answer.
Answers == {"agent", "diff", "tests_pass", "by_branch", "by_key", "create"}

\* The values a read of field f may return.
Opts(i, f, D) == IF f \in i.known THEN {i.val[f]} ELSE D

\* The input after field f was read as v.
Read(i, f, v) == [known |-> i.known \cup {f}, val |-> [i.val EXCEPT ![f] = v]]

Denylists == {{}, {"git"}, {"fmt"}, {"test"}}

Allowlists == {{}, {"repo1"}}

\* The local variables of `run` (exit_code and footer: agent_result; fmt:
\* the return code of the format command; ticket_ok: _ticket_ok of the
\* fields of issue; inferred: what infer_repo_from_issue returned), whether processes of the agent
\* it spawned are still alive, and whether the transcript of its last agent
\* invocation was written.
NoLocals ==
    [jira_key |-> None, repo |-> None, fix_attempts |-> 0, exc |-> None,
     pr_url |-> None, exit_code |-> None, footer |-> <<>>,
     agent_alive |-> FALSE, commands |-> <<>>, notes_for_agent |-> "",
     transcript_written |-> FALSE, fmt |-> None, blocked |-> <<>>,
     files_changed |-> 0, lines_changed |-> 0, ticket_ok |-> TRUE,
     inferred |-> None]

\* Where an agent leaves its changes: in the working tree (what `git diff`
\* reports), in the index, in new files git does not track, or in commits
\* on the working branch.
Placements == {"unstaged", "staged", "untracked", "committed"}

\* The changes of a repository that `git diff` does not report, as diffs
\* against the base branch.
NoGit == [staged |-> <<>>, untracked |-> <<>>, committed |-> <<>>]

\* The repository after an agent left diff d in placement w.
Placed(d, w) ==
    [tree |-> IF w = "unstaged" THEN d ELSE <<>>,
     git |-> [staged |-> IF w = "staged" THEN d ELSE <<>>,
              untracked |-> IF w = "untracked" THEN d ELSE <<>>,
              committed |-> IF w = "committed" THEN d ELSE <<>>]]

\* branch = f"j2pr/{jira_key}-{_slug(title)[:50]}"
BranchOf(jira_key) == "j2pr/" \o jira_key

\* ------------------------------------------------------------------- state

VARIABLES
    pc,        \* pc[p]: the statement invocation p is at
    inp,       \* inp[p]: the arguments and configuration it has read
    loc,       \* loc[p]: its local variables
    code,      \* code[p]: its process exit code, once it has exited
    out,       \* out[p]: the PR URL it printed
    trace,     \* trace[p]: the calls it has made, in order
    tickets,   \* table tickets
    runs,      \* table runs
    locks,     \* table locks
    tree,      \* tree[r]: the uncommitted diff of repository r's worktree
    git,       \* git[r]: what else repository r holds beside the base branch
    removed    \* the count the last clean-locks reported

vars == <<pc, inp, loc, code, out, trace, tickets, runs, locks, tree, git, removed>>

Init ==
    /\ pc = [p \in Procs |-> "idle"]
    /\ inp = [p \in Procs |-> NoInput]
    /\ loc = [p \in Procs |-> NoLocals]
    /\ code = [p \in Procs |-> -1]
    /\ out = [p \in Procs |-> None]
    /\ trace = [p \in Procs |-> <<>>]
    /\ tickets = [k \in Tickets |-> NoTicket]
    /\ runs = [id \in Procs |-> NoRun]
    /\ locks = [r \in Repos |-> 0]
    /\ tree = [r \in Repos |-> CleanDiff]
    /\ git = [r \in Repos |-> NoGit]
    /\ removed = 0

Ended == {"exited", "killed"}

Running(p) == pc[p] \notin Ended \cup {"idle"}

\* Statements inside the try block of `run` (cli.py 323-540).
TryPcs ==
    {"worktree", "fetch_base", "create_branch", "agent", "format", "test",
     "deny_globs", "diff_limits", "post_artifacts", "lookup_branch",
     "lookup_key", "adopt_upsert", "adopt_finish", "adopt_clear",
     "adopt_print", "push", "create_pr", "comment", "fin_upsert",
     "fin_finish", "fin_artifacts", "fin_clear", "fin_print"}

\* Statements of the `except Exception` handler (cli.py 545-552).
HandlerPcs == {"h_finish", "h_upsert", "h_clear"}

\* Statements after set_lock and before the try block (cli.py 276-321).
PreTryPcs ==
    {"repo_check", "clear_norepo", "clear_notest", "add_run", "upsert_running",
     "artifacts"}

\* Statements up to and including set_lock (cli.py 221-275).
PreLockPcs ==
    {"get_ticket", "search", "upsert_missing", "upsert_ambiguous", "get_lock",
     "set_lock"}

\* -------------------------------------------------------- helper updates

Log(p, events) == trace' = [trace EXCEPT ![p] = @ \o events]

Input(p, i) == inp' = [inp EXCEPT ![p] = i]

\* The invocation ends with exit code c, having printed url (or no URL).
Exit(p, c, url) ==
    /\ pc' = [pc EXCEPT ![p] = "exited"]
    /\ code' = [code EXCEPT ![p] = c]
    /\ out' = [out EXCEPT ![p] = url]

\* An exception with text message is raised inside the try block: control
\* moves to the handler with the exception bound (l: the locals so far).
Throw(p, message, l) ==
    /\ pc' = [pc EXCEPT ![p] = "h_finish"]
    /\ loc' = [loc EXCEPT ![p] = [l EXCEPT !.exc = message]]
    /\ UNCHANGED <<code, out>>

\* Control moves to statement next with locals l.
Step(p, next, l) ==
    /\ pc' = [pc EXCEPT ![p] = next]
    /\ loc' = [loc EXCEPT ![p] = l]
    /\ UNCHANGED <<code, out>>

\* ------------------------------------------------------- `run`, cli.py 209

\* Variant: a DONE ticket is run again.
ShortCircuit_OpenOnly(ticket, rerun) ==
    /\ ticket.status = "PR_OPENED"
    /\ ticket.pr_url # None
    /\ ~rerun

\* cli.py 222: the stored PR is returned without running.
ShortCircuit(ticket, rerun) ==
    /\ ticket.status \in {"PR_OPENED", "DONE"}
    /\ ticket.pr_url # None
    /\ ~rerun

\* Variant: a lock row never rejects.
Busy_Never(lock, run_id) == FALSE

\* cli.py 271: the repository is locked by another run.
Busy(lock, run_id) == lock # 0 /\ lock # run_id

\* Variant: the ceiling is reached one attempt earlier.
FixExhausted_AtCeiling(fix_attempts, max_fix_attempts) ==
    fix_attempts >= max_fix_attempts

\* Variant: the ceiling allows one attempt more.
FixExhausted_OneLate(fix_attempts, max_fix_attempts) ==
    fix_attempts > max_fix_attempts + 1

\* cli.py 420: the fix-attempt ceiling is exceeded.
FixExhausted(fix_attempts, max_fix_attempts) == fix_attempts > max_fix_attempts

\* Variant: an agent result without a footer is accepted.
MissingFooter_Accepted(footer) == FALSE

\* cli.py 391: `if not agent_result.footer`
MissingFooter(footer) == footer = <<>>

\* Variant: a PR that was found is not adopted.
Adopt_Never(pr_url) == FALSE

\* cli.py 463 and 480: `if pr_url`
Adopt(pr_url) == pr_url # None

\* Variant: a failed comment fails the run.
AfterCommentFailure_Fatal == "h_finish"

\* cli.py 530-534: the failure of add_comment is caught and the run goes on.
AfterCommentFailure == "fin_upsert"

\* Variant: a dirty worktree never stops the run.
DirtyAbort_Never(clean, force) == FALSE

\* cli.py 329: `if not clean and not force`
DirtyAbort(clean, force) == ~clean /\ ~force

\* Variant: the guardrail checks are passed over.
AfterLoop_Unguarded == "post_artifacts"

\* cli.py 424-426: the statement that follows the agent loop.
AfterLoop == "deny_globs"

\* Variant: the allowlist is not consulted.
NotAllowed_AnyRepo(repo, allowlist) == repo = None

\* cli.py 262: no repository, or one outside a non-empty allowlist.
NotAllowed(repo, allowlist) ==
    repo = None \/ (allowlist # {} /\ repo \notin allowlist)

\* Variant: a ticket is never rejected for its fields.
MissingFields_Never(ok, force) == FALSE

\* cli.py 244: `if not _ticket_ok(issue.fields) and not force`
MissingFields(ok, force) == ~ok /\ ~force

\* A new invocation `run KEY` starts (cli.py 209-219); run id p is fresh.
\* What earlier invocations that have ended left in their variables is
\* dropped: each ended process is observed until the next one starts.
Invoke(p, preset) ==
    /\ pc[p] = "idle"
    /\ \A q \in Procs : q < p => pc[q] # "idle"
    /\ \E key \in Tickets :
          loc' = [q \in Procs |->
                    IF q = p THEN [NoLocals EXCEPT !.jira_key = key]
                    ELSE IF pc[q] \in Ended THEN NoLocals ELSE loc[q]]
    /\ pc' = [pc EXCEPT ![p] = "get_ticket"]
    /\ inp' = [q \in Procs |->
                 IF q = p THEN preset
                 ELSE IF pc[q] \in Ended THEN NoInput ELSE inp[q]]
    /\ trace' = [q \in Procs |-> IF pc[q] \in Ended THEN <<>> ELSE trace[q]]
    /\ code' = [q \in Procs |-> IF pc[q] \in Ended THEN -1 ELSE code[q]]
    /\ out' = [q \in Procs |-> IF pc[q] \in Ended THEN None ELSE out[q]]
    /\ UNCHANGED <<tickets, runs, locks, tree, git, removed>>

\* cli.py 221-224
GetTicket(p) ==
    /\ pc[p] = "get_ticket"
    /\ \E rerun \in Opts(inp[p], "rerun", BOOLEAN) :
          LET ticket == get_ticket(tickets, loc[p].jira_key) IN
          /\ Input(p, Read(inp[p], "rerun", rerun))
          /\ IF ShortCircuit(ticket, rerun)
             THEN Exit(p, 0, ticket.pr_url) /\ UNCHANGED loc
             ELSE Step(p, "search", loc[p])
    /\ UNCHANGED <<trace, tickets, runs, locks, tree, git, removed>>

\* cli.py 260-261: the single-repository rule.
SingleRepo(repo, single_repo_only, allowlist) ==
    IF repo = None /\ single_repo_only /\ Cardinality(allowlist) = 1
    THEN CHOOSE r \in allowlist : TRUE
    ELSE repo

\* cli.py 226-267: the ticket is fetched, checked and mapped to a repository.
\* found: what search_issues does ("error": RuntimeError); ok: _ticket_ok;
\* mapped: what map_repo gives.
Search(p) ==
    /\ pc[p] = "search"
    /\ \E found \in {"error", "none", "issue"}, ok \in BOOLEAN,
          mapped \in Repos \cup {None} :
          IF found # "issue"
          THEN /\ ok /\ mapped = None
               /\ Exit(p, 3, None)
               /\ Log(p, <<"search_issues">>)
               /\ UNCHANGED <<inp, loc>>
          ELSE \E force \in Opts(inp[p], "force", BOOLEAN) :
                 IF MissingFields(ok, force)
                 THEN /\ mapped = None
                      /\ Step(p, "upsert_missing", [loc[p] EXCEPT !.ticket_ok = ok])
                      /\ Log(p, <<"search_issues">>)
                      /\ Input(p, Read(inp[p], "force", force))
                 ELSE \E allow \in Opts(inp[p], "repo_allowlist", Allowlists),
                         single \in Opts(inp[p], "single_repo_only", BOOLEAN) :
                        LET inferred ==
                               IF mapped = None
                               THEN infer_repo_from_issue(allow, inp[p].val.repo_inference)
                               ELSE None
                            repo == SingleRepo(IF mapped # None THEN mapped ELSE inferred,
                                               single, allow)
                            l == [loc[p] EXCEPT !.repo = repo, !.ticket_ok = ok,
                                                !.inferred = inferred]
                        IN
                        /\ Input(p, Read(Read(Read(inp[p], "force", force),
                                              "repo_allowlist", allow),
                                         "single_repo_only", single))
                        /\ Log(p, <<"search_issues">>)
                        /\ IF NotAllowed(repo, allow)
                           THEN Step(p, "upsert_ambiguous", l)
                           ELSE Step(p, "get_lock", l)
    /\ UNCHANGED <<tickets, runs, locks, tree, git, removed>>

\* cli.py 245-249
UpsertMissing(p) ==
    /\ pc[p] = "upsert_missing"
    /\ tickets' = upsert_ticket(tickets, loc[p].jira_key,
                     TicketState("NEEDS_HUMAN", None, None, None, 0,
                                 "Missing summary/description"))
    /\ Log(p, <<"upsert_ticket">>)
    /\ Exit(p, 2, None)
    /\ UNCHANGED <<inp, loc, runs, locks, tree, git, removed>>

\* cli.py 263-267
UpsertAmbiguous(p) ==
    /\ pc[p] = "upsert_ambiguous"
    /\ tickets' = upsert_ticket(tickets, loc[p].jira_key,
                     TicketState("NEEDS_HUMAN", None, None, None, 0,
                                 "Repo mapping ambiguous or not allowed"))
    /\ Log(p, <<"upsert_ticket">>)
    /\ Exit(p, 2, None)
    /\ UNCHANGED <<inp, loc, runs, locks, tree, git, removed>>

\* cli.py 269-273
GetLock(p) ==
    /\ pc[p] = "get_lock"
    /\ LET lock == get_lock(locks, loc[p].repo) IN
          IF Busy(lock, p)
          THEN Exit(p, 2, None) /\ UNCHANGED loc
          ELSE Step(p, "set_lock", loc[p])
    /\ Log(p, <<"get_lock">>)
    /\ UNCHANGED <<inp, tickets, runs, locks, tree, git, removed>>

\* cli.py 275
SetLock(p) ==
    /\ pc[p] = "set_lock"
    /\ locks' = set_lock(locks, loc[p].repo, p)
    /\ Log(p, <<"set_lock">>)
    /\ Step(p, "repo_check", loc[p])
    /\ UNCHANGED <<inp, tickets, runs, tree, git, removed>>

\* cli.py 276-293: the repository directory and the test command.
RepoCheck(p) ==
    /\ pc[p] = "repo_check"
    /\ \E exists \in BOOLEAN, detected \in BOOLEAN :
          IF ~exists
          THEN /\ detected
               /\ Step(p, "clear_norepo", loc[p])
               /\ UNCHANGED inp
          ELSE \E auto \in Opts(inp[p], "test_auto", BOOLEAN) :
                 IF ~auto \/ detected
                 THEN /\ (~auto => detected)
                      /\ Step(p, "add_run", loc[p])
                      /\ Input(p, Read(inp[p], "test_auto", auto))
                 ELSE \E tests \in Opts(inp[p], "require_tests", BOOLEAN) :
                        /\ Input(p, Read(Read(inp[p], "test_auto", auto),
                                         "require_tests", tests))
                        /\ Step(p, IF tests THEN "clear_notest" ELSE "add_run",
                                loc[p])
    /\ UNCHANGED <<trace, tickets, runs, locks, tree, git, removed>>

\* cli.py 278-280
ClearNoRepo(p) ==
    /\ pc[p] = "clear_norepo"
    /\ locks' = clear_lock(locks, loc[p].repo)
    /\ Log(p, <<"clear_lock">>)
    /\ Exit(p, 3, None)
    /\ UNCHANGED <<inp, loc, tickets, runs, tree, git, removed>>

\* cli.py 289-291
ClearNoTest(p) ==
    /\ pc[p] = "clear_notest"
    /\ locks' = clear_lock(locks, loc[p].repo)
    /\ Log(p, <<"clear_lock">>)
    /\ Exit(p, 2, None)
    /\ UNCHANGED <<inp, loc, tickets, runs, tree, git, removed>>

\* cli.py 295-296
AddRun(p) ==
    /\ pc[p] = "add_run"
    /\ runs' = add_run(runs, p,
                  RunState(loc[p].jira_key, "RUNNING", loc[p].repo, None, None, None))
    /\ Log(p, <<"add_run">>)
    /\ Step(p, "upsert_running", loc[p])
    /\ UNCHANGED <<inp, tickets, locks, tree, git, removed>>

\* cli.py 297
UpsertRunning(p) ==
    /\ pc[p] = "upsert_running"
    /\ tickets' = upsert_ticket(tickets, loc[p].jira_key,
                     TicketState("RUNNING", loc[p].repo, None, None, p, None))
    /\ Log(p, <<"upsert_ticket">>)
    /\ Step(p, "artifacts", loc[p])
    /\ UNCHANGED <<inp, runs, locks, tree, git, removed>>

\* cli.py 298-321: the log line, ticket.json, the session capture.
Artifacts(p) ==
    /\ pc[p] = "artifacts"
    /\ Step(p, "worktree", loc[p])
    /\ UNCHANGED <<inp, trace, tickets, runs, locks, tree, git, removed>>

\* cli.py 323-330: git status --porcelain also lists untracked files.
Worktree(p) ==
    /\ pc[p] = "worktree"
    /\ \E require_clean \in Opts(inp[p], "require_clean_worktree", BOOLEAN),
          untracked \in BOOLEAN :
          IF ~require_clean
          THEN /\ ~untracked
               /\ Input(p, Read(inp[p], "require_clean_worktree", require_clean))
               /\ Step(p, "fetch_base", loc[p])
               /\ UNCHANGED trace
          ELSE LET clean == tree[loc[p].repo] = CleanDiff /\ ~untracked IN
               \E force \in Opts(inp[p], "force", BOOLEAN) :
                 /\ Input(p, Read(Read(inp[p], "require_clean_worktree", require_clean),
                                  "force", force))
                 /\ Log(p, <<IF clean THEN "worktree:clean" ELSE "worktree:dirty">>)
                 /\ IF DirtyAbort(clean, force)
                    THEN Throw(p, MsgWorktree, loc[p])
                    ELSE Step(p, "fetch_base", loc[p])
    /\ UNCHANGED <<tickets, runs, locks, tree, git, removed>>

\* cli.py 332-343 and repo.py 33-44: fetch, forced checkout, hard reset and
\* clean leave no uncommitted change.
FetchBase(p) ==
    /\ pc[p] = "fetch_base"
    /\ tree' = [tree EXCEPT ![loc[p].repo] = CleanDiff]
    /\ git' = [git EXCEPT ![loc[p].repo] = NoGit]
    /\ Log(p, <<"fetch_and_checkout_base">>)
    /\ Step(p, "create_branch", loc[p])
    /\ UNCHANGED <<inp, tickets, runs, locks, removed>>

\* cli.py 344-356
CreateBranch(p) ==
    /\ pc[p] = "create_branch"
    /\ \E denylist \in Opts(inp[p], "command_denylist", Denylists) :
          LET l == [loc[p] EXCEPT !.commands = @ \o <<"git">>] IN
          /\ Input(p, Read(inp[p], "command_denylist", denylist))
          /\ IF ~_denylist_ok(l.commands, denylist)
             THEN Throw(p, MsgDenylist, l)
             ELSE Step(p, "agent", l)
    /\ Log(p, <<"create_branch">>)
    /\ UNCHANGED <<tickets, runs, locks, tree, git, removed>>

\* cli.py 377-392: one agent invocation; the agent leaves diff d behind, in
\* placement w.
Agent(p) ==
    /\ pc[p] = "agent"
    /\ \E a \in Opts(inp[p], "agent", AgentRuns),
          d \in Opts(inp[p], "diff", AgentDiffs),
          w \in Opts(inp[p], "placement", Placements) :
          LET agent_result == run_agent(a)
              l == [loc[p] EXCEPT !.agent_alive = agent_result.alive,
                                  !.transcript_written = agent_result.written]
          IN
          /\ tree' = [tree EXCEPT ![loc[p].repo] = Placed(d, w).tree]
          /\ git' = [git EXCEPT ![loc[p].repo] = Placed(d, w).git]
          /\ IF agent_result.raises # None
             THEN /\ Throw(p, agent_result.raises, l)
                  /\ Log(p, <<"run_agent:raised">>)
             ELSE LET r == [l EXCEPT !.exit_code = agent_result.exit_code,
                                     !.footer = agent_result.footer]
                  IN  IF MissingFooter(agent_result.footer)
                      THEN /\ Throw(p, MsgFooter, r)
                           /\ Log(p, <<IF a.timed_out THEN "run_agent:timeout"
                                                      ELSE "run_agent:nofooter">>)
                      ELSE /\ Step(p, "format", r)
                           /\ Log(p, <<"run_agent:footer">>)
    /\ UNCHANGED <<inp, tickets, runs, locks, removed>>

\* Variant: a format command that exits non-zero fails the run.
AfterFormat_Gating(returncode) == IF returncode = "0" THEN "test" ELSE "h_finish"

\* cli.py 396-403: the return code of the format command is not looked at.
AfterFormat(returncode) == "test"

\* cli.py 394-401: the format command, when one is configured; it may
\* rewrite files (d) and exits with returncode.
Format(p) ==
    /\ pc[p] = "format"
    /\ \E format_command \in Opts(inp[p], "format_command", BOOLEAN),
          returncode \in {"0", "1"} :
          IF ~format_command
          THEN /\ returncode = "0"
               /\ Input(p, Read(inp[p], "format_command", format_command))
               /\ Step(p, "test", loc[p])
               /\ UNCHANGED <<trace, tree, git>>
          ELSE \E denylist \in Opts(inp[p], "command_denylist", Denylists),
                  d \in AgentDiffs :
                 LET l == [loc[p] EXCEPT !.commands = @ \o <<"fmt">>,
                                         !.fmt = returncode] IN
                 /\ Input(p, Read(Read(inp[p], "format_command", format_command),
                                  "command_denylist", denylist))
                 /\ tree' = [tree EXCEPT ![loc[p].repo] = d]
                 /\ UNCHANGED git
                 /\ Log(p, <<"format">>)
                 /\ IF ~_denylist_ok(l.commands, denylist)
                    THEN Throw(p, MsgDenylist, l)
                    ELSE Step(p, AfterFormat(returncode), l)
    /\ UNCHANGED <<tickets, runs, locks, removed>>

\* cli.py 403-424: the test command, when tests are required, and the fix
\* loop.
Test(p) ==
    /\ pc[p] = "test"
    /\ \E require_tests \in Opts(inp[p], "require_tests", BOOLEAN),
          passed \in Opts(inp[p], "tests_pass", BOOLEAN) :
          IF ~require_tests
          THEN /\ Input(p, Read(inp[p], "require_tests", require_tests))
               /\ Step(p, AfterLoop, loc[p])
               /\ UNCHANGED trace
          ELSE \E denylist \in Opts(inp[p], "command_denylist", Denylists) :
                 LET l == [loc[p] EXCEPT !.commands = @ \o <<"test">>]
                     i == Read(Read(inp[p], "require_tests", require_tests),
                               "command_denylist", denylist)
                 IN
                 /\ Log(p, <<IF passed THEN "test:passed" ELSE "test:failed">>)
                 /\ IF ~_denylist_ok(l.commands, denylist)
                    THEN Throw(p, MsgDenylist, l) /\ Input(p, i)
                    ELSE IF passed
                    THEN Step(p, AfterLoop, l) /\ Input(p, i)
                    ELSE \E max_fix \in Opts(inp[p], "max_fix_attempts", 0..MaxFix) :
                           LET f == [l EXCEPT !.fix_attempts = @ + 1] IN
                           /\ Input(p, Read(i, "max_fix_attempts", max_fix))
                           /\ IF FixExhausted(f.fix_attempts, max_fix)
                              THEN Throw(p, MsgTests, f)
                              ELSE Step(p, "agent",
                                        [f EXCEPT !.notes_for_agent =
                                           "Tests failed; please fix and re-run tests."])
    /\ UNCHANGED <<tickets, runs, locks, tree, git, removed>>

\* cli.py 426-430
DenyGlobs(p) ==
    /\ pc[p] = "deny_globs"
    /\ LET r == enforce_deny_globs(tree[loc[p].repo], inp[p].val.deny_globs)
           l == [loc[p] EXCEPT !.blocked = r.blocked]
       IN  IF ~r.ok
           THEN Throw(p, MsgDenyGlob, l) /\ Log(p, <<"enforce_deny_globs:blocked">>)
           ELSE Step(p, "diff_limits", l) /\ Log(p, <<"enforce_deny_globs:ok">>)
    /\ UNCHANGED <<inp, tickets, runs, locks, tree, git, removed>>

\* cli.py 431-441
DiffLimits(p) ==
    /\ pc[p] = "diff_limits"
    /\ LET r == enforce_diff_limits(tree[loc[p].repo], inp[p].val.max_files_changed,
                                    inp[p].val.max_diff_lines)
           l == [loc[p] EXCEPT !.files_changed = r.files, !.lines_changed = r.lines]
       IN  IF ~r.ok
           THEN Throw(p, MsgDiffLimits, l)
                  /\ Log(p, <<"enforce_diff_limits:exceeded">>)
           ELSE Step(p, "post_artifacts", l)
                  /\ Log(p, <<"enforce_diff_limits:ok">>)
    /\ UNCHANGED <<inp, tickets, runs, locks, tree, git, removed>>

\* cli.py 443-450
PostArtifacts(p) ==
    /\ pc[p] = "post_artifacts"
    /\ Step(p, "lookup_branch", loc[p])
    /\ UNCHANGED <<inp, trace, tickets, runs, locks, tree, git, removed>>

\* cli.py 452-469: the lookup by branch, made when the remote branch exists.
LookupBranch(p) ==
    /\ pc[p] = "lookup_branch"
    /\ \E exists \in BOOLEAN, answer \in Opts(inp[p], "by_branch", LookupAnswers),
          message \in ExtMsgs :
          IF ~exists
          THEN /\ Step(p, "lookup_key", loc[p])
               /\ Log(p, <<"remote_branch_exists:no">>)
               /\ UNCHANGED inp
          ELSE \E use_gh_cli \in Opts(inp[p], "use_gh_cli", BOOLEAN) :
                 LET found == find_pr(use_gh_cli, answer, message) IN
                 /\ (answer # "error" \/ use_gh_cli => message = "unexpected error")
                 /\ Input(p, Read(inp[p], "use_gh_cli", use_gh_cli))
                 /\ Log(p, <<"find_pr_by_branch:" \o
                              (IF answer \in Urls THEN "found" ELSE answer)>>)
                 /\ IF found.raises # None
                    THEN Throw(p, found.raises, loc[p])
                    ELSE IF Adopt(found.pr_url)
                    THEN Step(p, "adopt_upsert", [loc[p] EXCEPT !.pr_url = found.pr_url])
                    ELSE Step(p, "lookup_key", loc[p])
    /\ UNCHANGED <<tickets, runs, locks, tree, git, removed>>

\* cli.py 471-486: the lookup by ticket key.
LookupKey(p) ==
    /\ pc[p] = "lookup_key"
    /\ \E answer \in Opts(inp[p], "by_key", LookupAnswers), message \in ExtMsgs,
          use_gh_cli \in Opts(inp[p], "use_gh_cli", BOOLEAN) :
          LET found == find_pr(use_gh_cli, answer, message) IN
          /\ (answer # "error" \/ use_gh_cli => message = "unexpected error")
          /\ Input(p, Read(inp[p], "use_gh_cli", use_gh_cli))
          /\ Log(p, <<"find_pr_by_jira:" \o
                       (IF answer \in Urls THEN "found" ELSE answer)>>)
          /\ IF found.raises # None
             THEN Throw(p, found.raises, loc[p])
             ELSE IF Adopt(found.pr_url)
             THEN Step(p, "adopt_upsert", [loc[p] EXCEPT !.pr_url = found.pr_url])
             ELSE Step(p, "push", loc[p])
    /\ UNCHANGED <<tickets, runs, locks, tree, git, removed>>

\* cli.py 465 and 482
AdoptUpsert(p) ==
    /\ pc[p] = "adopt_upsert"
    /\ tickets' = upsert_ticket(tickets, loc[p].jira_key,
                     TicketState("PR_OPENED", loc[p].repo, BranchOf(loc[p].jira_key),
                                 loc[p].pr_url, p, None))
    /\ Log(p, <<"upsert_ticket">>)
    /\ Step(p, "adopt_finish", loc[p])
    /\ UNCHANGED <<inp, runs, locks, tree, git, removed>>

\* cli.py 466 and 483
AdoptFinish(p) ==
    /\ pc[p] = "adopt_finish"
    /\ runs' = finish_run(runs, p, "PR_OPENED", loc[p].pr_url, loc[p].exit_code)
    /\ Log(p, <<"finish_run">>)
    /\ Step(p, "adopt_clear", loc[p])
    /\ UNCHANGED <<inp, tickets, locks, tree, git, removed>>

\* cli.py 467 and 484
AdoptClear(p) ==
    /\ pc[p] = "adopt_clear"
    /\ locks' = clear_lock(locks, loc[p].repo)
    /\ Log(p, <<"clear_lock">>)
    /\ Step(p, "adopt_print", loc[p])
    /\ UNCHANGED <<inp, tickets, runs, tree, git, removed>>

\* cli.py 468-469 and 485-486
AdoptPrint(p) ==
    /\ pc[p] = "adopt_print"
    /\ Exit(p, 0, loc[p].pr_url)
    /\ Log(p, <<"adopted">>)
    /\ UNCHANGED <<inp, loc, tickets, runs, locks, tree, git, removed>>

\* cli.py 488-492: run_command does not look at git's return code.
Push(p) ==
    /\ pc[p] = "push"
    /\ Log(p, <<"git_push">>)
    /\ Step(p, "create_pr", loc[p])
    /\ UNCHANGED <<inp, tickets, runs, locks, tree, git, removed>>

\* cli.py 494-517: the PR host creates the PR or reports an error.
CreatePr(p) ==
    /\ pc[p] = "create_pr"
    /\ \E answer \in Opts(inp[p], "create", Urls \cup {"error"}),
          message \in ExtMsgs :
          IF answer = "error"
          THEN /\ Throw(p, message, loc[p])
               /\ Log(p, <<"create_pr:error">>)
          ELSE /\ message = "unexpected error"
               /\ Step(p, "comment", [loc[p] EXCEPT !.pr_url = answer])
               /\ Log(p, <<"create_pr:created">>)
    /\ UNCHANGED <<inp, tickets, runs, locks, tree, git, removed>>

\* cli.py 519-532: the ticket comment; its failure is caught.
Comment(p) ==
    /\ pc[p] = "comment"
    /\ \E comment_on_pr \in Opts(inp[p], "comment_on_pr", BOOLEAN), posted \in BOOLEAN :
          IF ~comment_on_pr
          THEN /\ posted
               /\ Input(p, Read(inp[p], "comment_on_pr", comment_on_pr))
               /\ Step(p, "fin_upsert", loc[p])
               /\ UNCHANGED trace
          ELSE \E no_comment \in Opts(inp[p], "no_comment", BOOLEAN) :
                 /\ Input(p, Read(Read(inp[p], "comment_on_pr", comment_on_pr),
                                  "no_comment", no_comment))
                 /\ IF no_comment
                    THEN /\ posted
                         /\ Step(p, "fin_upsert", loc[p])
                         /\ UNCHANGED trace
                    ELSE IF posted
                    THEN /\ Step(p, "fin_upsert", loc[p])
                         /\ Log(p, <<"add_comment:posted">>)
                    ELSE /\ Step(p, AfterCommentFailure, loc[p])
                         /\ Log(p, <<"add_comment:failed">>)
    /\ UNCHANGED <<tickets, runs, locks, tree, git, removed>>

\* cli.py 534
FinUpsert(p) ==
    /\ pc[p] = "fin_upsert"
    /\ tickets' = upsert_ticket(tickets, loc[p].jira_key,
                     TicketState("PR_OPENED", loc[p].repo, BranchOf(loc[p].jira_key),
                                 loc[p].pr_url, p, None))
    /\ Log(p, <<"upsert_ticket">>)
    /\ Step(p, "fin_finish", loc[p])
    /\ UNCHANGED <<inp, runs, locks, tree, git, removed>>

\* cli.py 535
FinFinish(p) ==
    /\ pc[p] = "fin_finish"
    /\ runs' = finish_run(runs, p, "PR_OPENED", loc[p].pr_url, loc[p].exit_code)
    /\ Log(p, <<"finish_run">>)
    /\ Step(p, "fin_artifacts", loc[p])
    /\ UNCHANGED <<inp, tickets, locks, tree, git, removed>>

\* cli.py 536-537: pr.json and summary.json.
FinArtifacts(p) ==
    /\ pc[p] = "fin_artifacts"
    /\ Step(p, "fin_clear", loc[p])
    /\ UNCHANGED <<inp, trace, tickets, runs, locks, tree, git, removed>>

\* cli.py 538
FinClear(p) ==
    /\ pc[p] = "fin_clear"
    /\ locks' = clear_lock(locks, loc[p].repo)
    /\ Log(p, <<"clear_lock">>)
    /\ Step(p, "fin_print", loc[p])
    /\ UNCHANGED <<inp, tickets, runs, tree, git, removed>>

\* cli.py 539-540: the URL is printed and `run` returns.
FinPrint(p) ==
    /\ pc[p] = "fin_print"
    /\ Exit(p, 0, loc[p].pr_url)
    /\ Log(p, <<"created">>)
    /\ UNCHANGED <<inp, loc, tickets, runs, locks, tree, git, removed>>

\* cli.py 545-548: the handler classifies the error and finishes the run.
HFinish(p) ==
    /\ pc[p] = "h_finish"
    /\ runs' = finish_run(runs, p, _classify_error(loc[p].exc), None, None)
    /\ Log(p, <<"finish_run">>)
    /\ Step(p, "h_upsert", loc[p])
    /\ UNCHANGED <<inp, tickets, locks, tree, git, removed>>

\* cli.py 549
HUpsert(p) ==
    /\ pc[p] = "h_upsert"
    /\ tickets' = upsert_ticket(tickets, loc[p].jira_key,
                     TicketState(_classify_error(loc[p].exc), loc[p].repo, None, None,
                                 p, loc[p].exc))
    /\ Log(p, <<"upsert_ticket">>)
    /\ Step(p, "h_clear", loc[p])
    /\ UNCHANGED <<inp, runs, locks, tree, git, removed>>

\* cli.py 550-552
HClear(p) ==
    /\ pc[p] = "h_clear"
    /\ locks' = clear_lock(locks, loc[p].repo)
    /\ Log(p, <<"clear_lock">>)
    /\ Exit(p, IF _classify_error(loc[p].exc) = "NEEDS_HUMAN" THEN 2 ELSE 3, None)
    /\ UNCHANGED <<inp, loc, tickets, runs, tree, git, removed>>

\* The call made at the statement p is at raises instead of completing (the
\* store is unavailable, a file cannot be written, a command cannot be
\* started, ...).  Inside the try block the handler takes over; elsewhere
\* the exception leaves `run` and the process ends with a traceback.
Raise(p) ==
    /\ Running(p)
    /\ Log(p, <<"raised">>)
    /\ IF pc[p] \in TryPcs
       THEN \E message \in ExtMsgs : Throw(p, message, loc[p])
       ELSE Exit(p, 1, None) /\ UNCHANGED loc
    /\ UNCHANGED <<inp, tickets, runs, locks, tree, git, removed>>

\* The process of invocation p is killed.
Kill(p) ==
    /\ Running(p)
    /\ pc' = [pc EXCEPT ![p] = "killed"]
    /\ UNCHANGED <<inp, loc, code, out, trace, tickets, runs, locks, tree, git, removed>>

\* `clean-locks`, cli.py 714-722
CleanLocks ==
    /\ LET swept == clear_all_locks(locks) IN
          /\ locks' = swept.locks
          /\ removed' = swept.count
    /\ UNCHANGED <<pc, inp, loc, code, out, trace, tickets, runs, tree, git>>

\* A ticket whose PR is open is marked DONE from outside.
ExternalDone(k) ==
    /\ tickets[k].status = "PR_OPENED"
    /\ tickets' = [tickets EXCEPT ![k].status = "DONE"]
    /\ UNCHANGED <<pc, inp, loc, code, out, trace, runs, locks, tree, git, removed>>

\* The store after init_db on a new database file: no row in any table
\* (state.py 42-86); two ticket keys are in use.
StoreKeys == {"ABC-1", "ABC-2"}

InitStore ==
    /\ pc = [p \in Procs |-> "idle"]
    /\ inp = [p \in Procs |-> NoInput]
    /\ loc = [p \in Procs |-> NoLocals]
    /\ code = [p \in Procs |-> -1]
    /\ out = [p \in Procs |-> None]
    /\ trace = [p \in Procs |-> <<>>]
    /\ tickets = [k \in StoreKeys |-> NoTicket]
    /\ runs = [id \in Procs |-> NoRun]
    /\ locks = [r \in Repos |-> 0]
    /\ tree = [r \in Repos |-> CleanDiff]
    /\ git = [r \in Repos |-> NoGit]
    /\ removed = 0

\* The rows the callers of upsert_ticket write.
StoreRows ==
    {TicketState(status, "repo1", None, pr_url, 1, last_error) :
        status \in {"RUNNING", "NEEDS_HUMAN", "FAILED", "PR_OPENED"},
        pr_url \in {None, "http://pr/1"},
        last_error \in {None, "unexpected error"}}

\* One call upsert_ticket(state) with state.ticket_key = key (state.py 108).
StoreUpsert(key, state) ==
    /\ tickets' = upsert_ticket(tickets, key, state)
    /\ UNCHANGED <<pc, inp, loc, code, out, trace, runs, locks, tree, git, removed>>

\* One statement of invocation p.
Statement(p) ==
    \/ GetTicket(p) \/ Search(p) \/ UpsertMissing(p) \/ UpsertAmbiguous(p)
    \/ GetLock(p) \/ SetLock(p) \/ RepoCheck(p) \/ ClearNoRepo(p)
    \/ ClearNoTest(p) \/ AddRun(p) \/ UpsertRunning(p) \/ Artifacts(p)
    \/ Worktree(p) \/ FetchBase(p) \/ CreateBranch(p) \/ Agent(p) \/ Format(p)
    \/ Test(p) \/ DenyGlobs(p) \/ DiffLimits(p) \/ PostArtifacts(p)
    \/ LookupBranch(p) \/ LookupKey(p) \/ AdoptUpsert(p) \/ AdoptFinish(p)
    \/ AdoptClear(p) \/ AdoptPrint(p) \/ Push(p) \/ CreatePr(p) \/ Comment(p)
    \/ FinUpsert(p) \/ FinFinish(p) \/ FinArtifacts(p) \/ FinClear(p)
    \/ FinPrint(p) \/ HFinish(p) \/ HUpsert(p) \/ HClear(p)

\* No invocation is in progress.
Quiet == \A q \in Procs : ~Running(q)

\* Invocations one after the other, with or without --rerun and --force,
\* any of which may fail at any statement; the agent's work passes the tests,
\* an open PR may exist for the branch and the creation of one may fail; a
\* ticket may be marked DONE.
Next ==
    \/ \E p \in Procs : Quiet /\ Invoke(p, Preset({"rerun", "force", "by_branch", "create"}))
    \/ \E p \in Procs : Statement(p)
    \/ \E p \in Procs : Raise(p)
    \/ \E k \in Tickets : ExternalDone(k)

Spec == Init /\ [][Next]_vars

\* One invocation under every configuration of the format command, the
\* test command, the fix-attempt ceiling and the command denylist.
NextFix ==
    \/ Invoke(1, Preset({"require_tests", "max_fix_attempts", "format_command",
                         "command_denylist"} \cup Answers))
    \/ Statement(1)
    \/ Raise(1)

SpecFix == Init /\ [][NextFix]_vars

\* One invocation under both ways of reaching the PR host (gh, REST), every
\* answer of the PR host and of the ticket comment, with faults.
NextPr ==
    \/ Invoke(1, Preset({"use_gh_cli", "by_branch", "by_key", "create",
                         "comment_on_pr", "no_comment"}))
    \/ Statement(1)
    \/ Raise(1)

SpecPr == Init /\ [][NextPr]_vars

\* One invocation whose agent completes, for every transcript and return
\* code of the agent; an open PR may exist for the branch.
NextAgent ==
    \/ \E t \in Transcripts, rc \in {"0", "1"} :
          Invoke(1, [Preset({"by_branch"}) EXCEPT
                        !.val.agent = AgentRun(FALSE, TRUE, rc, t)])
    \/ Statement(1)

SpecAgent == Init /\ [][NextAgent]_vars

\* Invocations that overlap in time; the agent's work passes the tests and
\* the guardrails, and an open PR may exist for the branch.
NextConc ==
    \/ \E p \in Procs : Invoke(p, Preset({"by_branch"}))
    \/ \E p \in Procs : Statement(p)

SpecConc == Init /\ [][NextConc]_vars

\* One invocation for every diff of the guardrail files, every deny-glob
\* list and every pair of diff limits; an open PR may exist for the branch.
NextGuard ==
    \/ \E d \in GuardDiffs, g \in GlobLists,
          max_files \in {1, max_files_changed}, max_lines \in {2, max_diff_lines} :
          Invoke(1, [Preset({"by_branch"}) EXCEPT
                        !.val.diff = d, !.val.deny_globs = g,
                        !.val.max_files_changed = max_files,
                        !.val.max_diff_lines = max_lines])
    \/ Statement(1)

SpecGuard == Init /\ [][NextGuard]_vars

\* Any sequence of upsert_ticket calls on the tickets table.
NextStore == \E key \in StoreKeys, state \in StoreRows : StoreUpsert(key, state)

SpecStore == InitStore /\ [][NextStore]_vars

\* One invocation with and without an allowlist, with and without --force,
\* with faults; an open PR may exist for the branch.
NextRepo ==
    \/ Invoke(1, Preset({"repo_allowlist", "force", "by_branch"}))
    \/ Statement(1)
    \/ Raise(1)

SpecRepo == Init /\ [][NextRepo]_vars

\* Invocations one after the other, any of which may be killed at any
\* statement, and the clean-locks command at any moment; an open PR may exist
\* for the branch.
NextOps ==
    \/ \E p \in Procs : Quiet /\ Invoke(p, Preset({"by_branch"}))
    \/ \E p \in Procs : Statement(p)
    \/ \E p \in Procs : Kill(p)
    \/ CleanLocks

SpecOps == Init /\ [][NextOps]_vars

\* Invocations that overlap in time and the clean-locks command at any
\* moment; an open PR may exist for the branch.
NextSweep ==
    \/ \E p \in Procs : Invoke(p, Preset({"by_branch"}))
    \/ \E p \in Procs : Statement(p)
    \/ CleanLocks

SpecSweep == Init /\ [][NextSweep]_vars

\* One invocation whose agent leaves any of the diffs in the working tree, in
\* the index, in untracked files or in commits on the working branch; an
\* open PR may exist for the branch.
NextPlace ==
    \/ Invoke(1, Preset({"diff", "placement", "by_branch"}))
    \/ Statement(1)

SpecPlace == Init /\ [][NextPlace]_vars

\* One invocation for every setting of the repository inference, with and
\* without an allowlist and the single-repository rule; an open PR may exist
\* for the branch.
NextInfer ==
    \/ \E inference \in Inferences :
          Invoke(1, [Preset({"repo_allowlist", "single_repo_only", "by_branch"})
                        EXCEPT !.val.repo_inference = inference])
    \/ Statement(1)

SpecInfer == Init /\ [][NextInfer]_vars

\* One invocation in which every call returns: every agent result and every
\* test outcome at each turn of the fix loop, with and without required
\* tests, under every fix-attempt ceiling; an open PR may exist for the
\* branch.  `run` is one sequential process: a statement that can be
\* executed is executed.
NextLoop ==
    \/ Invoke(1, Preset({"require_tests", "max_fix_attempts", "agent",
                         "tests_pass", "by_branch"}))
    \/ Statement(1)

SpecLoop == Init /\ [][NextLoop]_vars /\ WF_vars(Statement(1))

\* ------------------------------------------------------------- properties

\* The number of times event e occurs in the sequence t.
Count(t, e) == Cardinality({i \in 1..Len(t) : t[i] = e})

Has(t, e) == \E i \in 1..Len(t) : t[i] = e

\* Invocation p has executed set_lock and not yet a clear_lock.
Holds(p) == Has(trace[p], "set_lock") /\ ~Has(trace[p], "clear_lock") /\ Running(p)

\* `run` has returned, or has been left by an exception, in invocation p.
Returned(p) == pc[p] = "exited"

TerminalStatus == {"PR_OPENED", "NEEDS_HUMAN", "FAILED"}

\* C1: at any moment at most one invocation per repository is between its
\* acquisition of the lock (set_lock) and its release of it (clear_lock),
\* whatever the interleaving of concurrent invocations (no sweep, no kill).
C1_MutualExclusion ==
    \A p, q \in Procs :
       p # q /\ Holds(p) /\ Holds(q) => loc[p].repo # loc[q].repo

\* C2: when exactly one call of an invocation has failed, at whatever
\* statement after set_lock, no lock row for the repository is left once
\* `run` has returned.
C2_NoLockAfterFailure ==
    \A p \in Procs :
       Returned(p) /\ Has(trace[p], "set_lock") /\ Count(trace[p], "raised") = 1
          => get_lock(locks, loc[p].repo) = 0

\* C3: when an exception was raised at a statement after the lock was
\* acquired, the run's row ends in NEEDS_HUMAN or FAILED and the ticket's row
\* carries the same status with the error message.
C3_FailureRecorded ==
    \A p \in Procs :
       Returned(p) /\ Has(trace[p], "set_lock")
          /\ (loc[p].exc # None \/ Has(trace[p], "raised"))
          => /\ runs[p].status \in {"NEEDS_HUMAN", "FAILED"}
             /\ get_ticket(tickets, loc[p].jira_key).status = runs[p].status
             /\ get_ticket(tickets, loc[p].jira_key).last_error # None

\* C4: a run's row is created RUNNING and finalized once: after finish_run
\* has given it a terminal status, no later step changes its status, PR URL
\* or agent exit code (a PR_OPENED row is never rewritten).
C4_FinalizedOnce ==
    [][\A id \in Procs :
          /\ (runs[id] = NoRun /\ runs'[id] # NoRun => runs'[id].status = "RUNNING")
          /\ (runs[id].status \in TerminalStatus
                => /\ runs'[id].status = runs[id].status
                   /\ runs'[id].pr_url = runs[id].pr_url
                   /\ runs'[id].cursor_exit_code = runs[id].cursor_exit_code)]_vars

\* C5: on every path on which an invocation that acquired the lock leaves
\* `run`, clear_lock has been executed exactly once.
C5_ClearedExactlyOnce ==
    \A p \in Procs :
       Returned(p) /\ Has(trace[p], "set_lock") => Count(trace[p], "clear_lock") = 1

\* C6: when the stored ticket is PR_OPENED or DONE with a PR URL and --rerun
\* is not given, the invocation prints the stored URL and exits 0 at its
\* first statement, having made no call and changed nothing in the store or
\* the worktrees (so that repeating it gives the same again), unless the
\* read of the store itself fails.
C6_ShortCircuit ==
    [][\A p \in Procs :
          LET ticket == get_ticket(tickets, loc[p].jira_key) IN
          (/\ pc[p] = "get_ticket" /\ pc'[p] # "get_ticket"
           /\ ticket.status \in {"PR_OPENED", "DONE"} /\ ticket.pr_url # None
           /\ ~inp'[p].val.rerun /\ ~Has(trace'[p], "raised"))
          => /\ pc'[p] = "exited" /\ code'[p] = 0 /\ out'[p] = ticket.pr_url
             /\ trace'[p] = <<>>
             /\ UNCHANGED <<tickets, runs, locks, tree, git>>]_vars

C6_Witness ==
    \E p \in Procs :
       /\ Returned(p) /\ code[p] = 0 /\ trace[p] = <<>> /\ out[p] \in Urls
       /\ get_ticket(tickets, loc[p].jira_key).status = "DONE"
       /\ runs[p] = NoRun

\* C7: when the repository's lock row names another run, the invocation is
\* rejected as busy (exit 2): the lock row keeps its holder, no ticket row
\* and no run row is written, and no git or agent command is run.
C7_BusyRejected ==
    [][\A p \in Procs :
          (/\ pc[p] = "get_lock" /\ pc'[p] # "get_lock"
           /\ locks[loc[p].repo] \notin {0, p} /\ ~Has(trace'[p], "raised"))
          => /\ pc'[p] = "exited" /\ code'[p] = 2
             /\ trace'[p] = <<"search_issues", "get_lock">>
             /\ UNCHANGED <<tickets, runs, locks, tree, git>>]_vars

C7_Witness ==
    \E p \in Procs :
       /\ Returned(p) /\ code[p] = 2
       /\ trace[p] = <<"search_issues", "get_lock">>
       /\ locks[loc[p].repo] \notin {0, p}

AgentEvents ==
    {"run_agent:raised", "run_agent:timeout", "run_agent:nofooter",
     "run_agent:footer", "format", "test:passed", "test:failed"}

GuardEvents ==
    {"enforce_deny_globs:blocked", "enforce_deny_globs:ok",
     "enforce_diff_limits:exceeded", "enforce_diff_limits:ok"}

PublishEvents ==
    {"find_pr_by_branch:found", "find_pr_by_jira:found", "adopted", "git_push",
     "create_pr:error", "create_pr:created", "add_comment:posted",
     "add_comment:failed", "created"}

\* C8: the guardrail checks are made only after the last agent invocation
\* and the format and test commands that follow it, and the branch is pushed
\* and a PR created or adopted only after the deny-glob check and then the
\* diff-limit check have passed.
C8_GuardrailsBeforePublish ==
    \A p \in Procs : \A i \in 1..Len(trace[p]) :
       /\ trace[p][i] \in GuardEvents
            => \A j \in (i + 1)..Len(trace[p]) : trace[p][j] \notin AgentEvents
       /\ trace[p][i] \in PublishEvents
            => \E j, k \in 1..(i - 1) :
                  /\ j < k
                  /\ trace[p][j] = "enforce_deny_globs:ok"
                  /\ trace[p][k] = "enforce_diff_limits:ok"

C8_Witness ==
    \E p \in Procs :
       /\ Has(trace[p], "test:failed") /\ Has(trace[p], "format")
       /\ Has(trace[p], "git_push") /\ Has(trace[p], "adopted") = FALSE
       /\ Returned(p) /\ code[p] = 0

\* The events of trace t after its i-th.
After(t, i) == SubSeq(t, i + 1, Len(t))

C10_FixLoopBound ==
    \A p \in Procs :
       LET N == inp[p].val.max_fix_attempts
           agents == Cardinality({i \in 1..Len(trace[p]) :
                        trace[p][i] \in {"run_agent:raised", "run_agent:timeout",
                                         "run_agent:nofooter", "run_agent:footer"}})
       IN
       /\ "max_fix_attempts" \in inp[p].known
             => Count(trace[p], "test:failed") <= N + 1
       /\ (Returned(p) /\ loc[p].exc = MsgTests /\ ~Has(trace[p], "raised"))
             => /\ agents = N + 1
                /\ Count(trace[p], "run_agent:footer") = N + 1
                /\ Count(trace[p], "test:failed") = N + 1
                /\ Count(trace[p], "test:passed") = 0
                /\ runs[p].status = "NEEDS_HUMAN"
                /\ get_ticket(tickets, loc[p].jira_key).status = "NEEDS_HUMAN"
                /\ get_ticket(tickets, loc[p].jira_key).last_error = MsgTests
                /\ code[p] = 2
                /\ \A i \in 1..Len(trace[p]) :
                      trace[p][i] \notin GuardEvents \cup PublishEvents

C10_Witness ==
    \E p \in Procs :
       /\ Returned(p) /\ loc[p].exc = MsgTests /\ code[p] = 2
       /\ inp[p].val.max_fix_attempts >= 1
       /\ Count(trace[p], "test:failed") >= 2

\* The agent invocation of p ran past its timeout.
TimedOut(p) ==
    \/ Has(trace[p], "run_agent:timeout")
    \/ Has(trace[p], "run_agent:raised") /\ loc[p].exc = MsgTimeout

\* C11: when an agent invocation exceeds its timeout, whatever the agent's
\* processes do after the terminate signal, run_agent returns a result with
\* exit code -1 and no footer (it does not raise), and no process of the
\* agent's process group is alive after the call.
C11_TimeoutKillsGroup ==
    \A p \in Procs :
       TimedOut(p) /\ ~Has(trace[p], "raised")
          => /\ Has(trace[p], "run_agent:timeout")
             /\ loc[p].exit_code = "-1"
             /\ loc[p].footer = <<>>
             /\ ~loc[p].agent_alive

\* C12: every run whose agent invocation timed out ends as the missing-footer
\* failure: the run's row and the ticket's row are NEEDS_HUMAN and the exit
\* code is 2, whatever the agent does after the terminate signal.
C12_TimeoutNeedsHuman ==
    \A p \in Procs :
       Returned(p) /\ TimedOut(p) /\ ~Has(trace[p], "raised")
          => /\ runs[p].status = "NEEDS_HUMAN"
             /\ get_ticket(tickets, loc[p].jira_key).status = "NEEDS_HUMAN"
             /\ code[p] = 2

\* The first token of line that is not white space is the marker.
StartsWithMarker(line) ==
    \E k \in 1..Len(line) :
       line[k] = Marker /\ \A j \in 1..(k - 1) : line[j] = " "

NotBlank(token) == token \notin {" ", Marker}

\* C13: for every transcript of a completed agent process, the footer that
\* run_agent returns is the parse of the last line that, stripped of
\* surrounding white space, begins with the marker, however many marker lines
\* precede it: the fields of its JSON object, with the empty defaults for the
\* absent ones (run_agent raises when its text is not JSON); without such a
\* line there is no footer; parse_footer gives none for a line that does not
\* start with the marker.
C13_LastMarkerLine ==
    /\ \A line \in Lines :
          (line = <<>> \/ line[1] # Marker)
             => parse_footer(line) = [raises |-> None, footer |-> <<>>]
    /\ \A p \in Procs :
          LET t == inp[p].val.agent.transcript
              marked == {i \in 1..Len(t) : StartsWithMarker(t[i])}
              last == CHOOSE i \in marked : \A j \in marked : j <= i
              text == SelectSeq(t[last], NotBlank)
              object == JsonObjects[text[1]]
          IN
          (/\ "agent" \in inp[p].known /\ ~inp[p].val.agent.timed_out
           /\ \E i \in 1..Len(trace[p]) :
                 trace[p][i] \in {"run_agent:nofooter", "run_agent:footer",
                                  "run_agent:raised"})
          => IF marked = {}
             THEN Has(trace[p], "run_agent:nofooter") /\ loc[p].footer = <<>>
             ELSE IF Len(text) = 1 /\ text[1] \in DOMAIN JsonObjects
             THEN /\ Has(trace[p], "run_agent:footer")
                  /\ loc[p].footer =
                        <<[f \in DOMAIN FooterDefaults |->
                              IF f \in DOMAIN object THEN object[f]
                              ELSE FooterDefaults[f]]>>
             ELSE Has(trace[p], "run_agent:raised") /\ loc[p].footer = <<>>

C13_Witness ==
    \E p \in Procs :
       /\ inp[p].val.agent.transcript = <<FooterLine("{A}"), TextLine>>
       /\ Has(trace[p], "run_agent:footer")
       /\ loc[p].footer # <<>> /\ loc[p].footer[1].summary = "A"

\* C14: when the agent process completes, with whatever exit code, and its
\* transcript has no marker line, the run aborts with "Agent contract missing
\* footer": NEEDS_HUMAN, exit 2, and after that agent invocation no format
\* command, test command, guardrail check, push or PR creation is executed.
C14_MissingFooterAborts ==
    \A p \in Procs :
       LET ran == {i \in 1..Len(trace[p]) :
                      trace[p][i] \in {"run_agent:raised", "run_agent:timeout",
                                       "run_agent:nofooter", "run_agent:footer"}}
           last == CHOOSE i \in ran : \A j \in ran : j <= i
       IN
       (loc[p].footer = <<>> /\ loc[p].exit_code \in {"0", "1"})
          => /\ ran # {}
             /\ trace[p][last] = "run_agent:nofooter"
             /\ \A j \in (last + 1)..Len(trace[p]) :
                   trace[p][j] \in {"finish_run", "upsert_ticket", "clear_lock", "raised"}
             /\ loc[p].exc = MsgFooter
             /\ (Returned(p) /\ ~Has(trace[p], "raised"))
                   => /\ runs[p].status = "NEEDS_HUMAN"
                      /\ get_ticket(tickets, loc[p].jira_key).status = "NEEDS_HUMAN"
                      /\ get_ticket(tickets, loc[p].jira_key).last_error = MsgFooter
                      /\ code[p] = 2

C14_Witness ==
    \E p \in Procs :
       /\ Returned(p) /\ code[p] = 2 /\ Has(trace[p], "run_agent:nofooter")
       /\ loc[p].exit_code = "0" /\ runs[p].status = "NEEDS_HUMAN"

C16_LookupFailureEndsRun ==
    \A p \in Procs : \A i \in 1..Len(trace[p]) :
       trace[p][i] \in {"find_pr_by_branch:error", "find_pr_by_jira:error"}
          => \A j \in (i + 1)..Len(trace[p]) :
                trace[p][j] \in {"finish_run", "upsert_ticket", "clear_lock", "raised"}

\* C17: when posting the ticket comment fails after the PR was created, the
\* run still ends with the ticket's row and the run's row PR_OPENED with the
\* new PR's URL, exit code 0 and the lock released.
C17_CommentFailureNotFatal ==
    \A p \in Procs :
       Has(trace[p], "add_comment:failed") /\ Returned(p) /\ ~Has(trace[p], "raised")
          => /\ code[p] = 0 /\ out[p] = loc[p].pr_url /\ loc[p].pr_url \in Urls
             /\ get_ticket(tickets, loc[p].jira_key).status = "PR_OPENED"
             /\ get_ticket(tickets, loc[p].jira_key).pr_url = loc[p].pr_url
             /\ runs[p].status = "PR_OPENED"
             /\ runs[p].pr_url = loc[p].pr_url
             /\ get_lock(locks, loc[p].repo) = 0

C17_Witness ==
    \E p \in Procs :
       /\ Has(trace[p], "add_comment:failed") /\ Returned(p) /\ code[p] = 0
       /\ runs[p].status = "PR_OPENED"

\* What invocation p has done since it found its worktree dirty.
DirtyWorktreeRespected(p) ==
    \A i \in 1..Len(trace[p]) :
       trace[p][i] = "worktree:dirty"
          => IF inp[p].val.force
             THEN i < Len(trace[p])
                     => trace[p][i + 1] \in {"fetch_and_checkout_base", "raised"}
             ELSE /\ loc[p].exc = MsgWorktree
                  /\ \A j \in (i + 1)..Len(trace[p]) :
                        trace[p][j] \in {"finish_run", "upsert_ticket",
                                         "clear_lock", "raised"}
                  /\ (Returned(p) /\ ~Has(trace[p], "raised"))
                        => /\ runs[p].status = "NEEDS_HUMAN"
                           /\ get_ticket(tickets, loc[p].jira_key).status = "NEEDS_HUMAN"
                           /\ get_ticket(tickets, loc[p].jira_key).last_error = MsgWorktree
                           /\ code[p] = 2

\* C18: with require_clean_worktree enabled, a dirty worktree and no --force,
\* the run aborts with "Worktree not clean" (NEEDS_HUMAN, exit 2) and makes no
\* fetch, checkout, reset, clean, branch reset or agent invocation, so that
\* the worktree stays as it was; with --force the run goes on to the reset.
C18_DirtyWorktreeUntouched ==
    [][\A p \in Procs :
          /\ DirtyWorktreeRespected(p)'
          /\ (Has(trace'[p], "worktree:dirty") /\ ~inp'[p].val.force)
                => tree' = tree]_vars

C18_Witness ==
    \E p \in Procs :
       /\ Returned(p) /\ code[p] = 2 /\ loc[p].exc = MsgWorktree
       /\ tree[loc[p].repo] # CleanDiff
       /\ trace[p][Len(trace[p])] = "clear_lock"

\* C19: the exit code of every invocation in which no call failed matches
\* the outcome: 0 only when a PR URL is printed, 2 only when the ticket's
\* stored status is NEEDS_HUMAN, 3 only when no PR URL is printed, and no
\* other code.
C19_ExitCodeMatchesOutcome ==
    \A p \in Procs :
       Returned(p) /\ loc[p].jira_key # None /\ ~Has(trace[p], "raised")
          => /\ code[p] \in {0, 2, 3}
             /\ code[p] = 0 => out[p] \in Urls
             /\ code[p] = 2
                   => get_ticket(tickets, loc[p].jira_key).status = "NEEDS_HUMAN"
             /\ code[p] = 3 => out[p] = None

\* C20: an error raised by the creation of the PR ends the run with the
\* run's row and the ticket's row FAILED and exit code 3, whatever text the
\* error message carries.
C20_HostErrorIsFailed ==
    \A p \in Procs :
       Returned(p) /\ Has(trace[p], "create_pr:error") /\ ~Has(trace[p], "raised")
          => /\ runs[p].status = "FAILED"
             /\ get_ticket(tickets, loc[p].jira_key).status = "FAILED"
             /\ code[p] = 3

\* The position of name in the sequence names (0: not in it).
IndexOf(names, name) ==
    IF \E i \in 1..Len(names) : names[i] = name
    THEN CHOOSE i \in 1..Len(names) : names[i] = name
    ELSE 0

\* C21: enforce_deny_globs gives ok exactly when no changed file matches a
\* deny glob, and its blocked list holds exactly the changed files that match
\* at least one glob, in the order of the diff; with the globs
\* .github/workflows/** and migrations/**, migrations/001.sql and
\* .github/workflows/ci.yml are blocked and src/app.py is not; with no glob
\* nothing is blocked.
C21_DenyGlobsBlocked ==
    /\ matches_deny_glob(<<"migrations", "001.sql">>,
                         << <<".github", "workflows", "**">>, <<"migrations", "**">> >>)
    /\ matches_deny_glob(<<".github", "workflows", "ci.yml">>,
                         << <<".github", "workflows", "**">>, <<"migrations", "**">> >>)
    /\ ~matches_deny_glob(<<"src", "app.py">>,
                          << <<".github", "workflows", "**">>, <<"migrations", "**">> >>)
    /\ \A p \in Procs :
          LET names == [i \in 1..Len(tree[loc[p].repo]) |-> tree[loc[p].repo][i][3]]
              globs == inp[p].val.deny_globs
              blocked == loc[p].blocked
              checked == Has(trace[p], "enforce_deny_globs:ok")
                            \/ Has(trace[p], "enforce_deny_globs:blocked")
          IN
          checked
             => /\ Has(trace[p], "enforce_deny_globs:ok")
                   <=> ~\E i \in 1..Len(names) : matches_deny_glob(names[i], globs)
                /\ \A i \in 1..Len(names) :
                      matches_deny_glob(names[i], globs)
                         <=> \E j \in 1..Len(blocked) : blocked[j] = names[i]
                /\ \A j \in 1..Len(blocked) : IndexOf(names, blocked[j]) > 0
                /\ \A j, k \in 1..Len(blocked) :
                      j < k => IndexOf(names, blocked[j]) < IndexOf(names, blocked[k])
                /\ globs = <<>> => blocked = <<>>

C21_Witness ==
    \E p \in Procs :
       /\ Has(trace[p], "enforce_deny_globs:blocked") /\ Returned(p)
       /\ inp[p].val.deny_globs =
             << <<".github", "workflows", "**">>, <<"migrations", "**">> >>
       /\ Len(tree[loc[p].repo]) = 4
       /\ loc[p].blocked = << <<".github", "workflows", "ci.yml">>,
                              <<"migrations", "001.sql">> >>

\* Five changed files with ten changed lines each.
FiveFiles == [i \in 1..5 |-> <<7, 3, <<"src", ToString(i)>> >>]

\* C22: enforce_diff_limits reports a violation exactly when the number of
\* changed files is greater than max_files or the sum of the added and
\* removed lines of all files is greater than max_lines (a count equal to its
\* limit passes), and returns the file count and the line total; 5 files with
\* 50 lines against the limits 3 and 1000 is a violation, by the file count,
\* returned with the counts 5 and 50.
C22_DiffLimits ==
    /\ enforce_diff_limits(FiveFiles, 3, 1000) = [ok |-> FALSE, files |-> 5, lines |-> 50]
    /\ enforce_diff_limits(FiveFiles, 5, 50).ok
    /\ \A p \in Procs :
          LET diff == tree[loc[p].repo]
              total == SumLines([i \in 1..Len(diff) |-> <<diff[i][1] + diff[i][2], 0>>])
              checked == Has(trace[p], "enforce_diff_limits:ok")
                            \/ Has(trace[p], "enforce_diff_limits:exceeded")
          IN
          checked
             => /\ loc[p].files_changed = Len(diff)
                /\ loc[p].lines_changed = total
                /\ Has(trace[p], "enforce_diff_limits:exceeded")
                      <=> \/ Len(diff) > inp[p].val.max_files_changed
                          \/ total > inp[p].val.max_diff_lines

C22_Witness ==
    \E p \in Procs :
       /\ Has(trace[p], "enforce_diff_limits:ok") /\ Returned(p) /\ code[p] = 0
       /\ loc[p].files_changed = inp[p].val.max_files_changed
       /\ loc[p].lines_changed = inp[p].val.max_diff_lines
       /\ loc[p].files_changed >= 2

\* C23: for any sequence of upsert_ticket calls, the table has one row per
\* key at most; after upsert_ticket of a row for key k, get_ticket(k) returns
\* exactly that row, every field replaced and none kept from the row before,
\* and the rows of the other keys are as they were; a row changes only by an
\* upsert for its key, so that a key never written has no row.
C23_UpsertReplaces ==
    /\ \A k \in StoreKeys : get_ticket(tickets, k) = NoTicket
    /\ [][/\ DOMAIN tickets' = DOMAIN tickets
          /\ \A k \in StoreKeys, state \in StoreRows :
                StoreUpsert(k, state)
                   => /\ get_ticket(tickets', k) = state
                      /\ \A j \in StoreKeys \ {k} :
                            get_ticket(tickets', j) = get_ticket(tickets, j)
          /\ \A k \in StoreKeys :
                get_ticket(tickets', k) # get_ticket(tickets, k)
                   => \E state \in StoreRows : StoreUpsert(k, state)]_vars

C23_Witness ==
    /\ DOMAIN tickets = StoreKeys
    /\ get_ticket(tickets, "ABC-1").status = "FAILED"
    /\ get_ticket(tickets, "ABC-1").pr_url = None
    /\ get_ticket(tickets, "ABC-1").last_error # None
    /\ get_ticket(tickets, "ABC-2").status = "PR_OPENED"
    /\ get_ticket(tickets, "ABC-2").pr_url # None

\* The lock row of repository r names a run whose process was killed.
Stale(r) == \E q \in Procs : pc[q] = "killed" /\ locks[r] = q

\* C24: clean-locks reports the number of lock rows there were, leaves no
\* lock row (get_lock is none for every repository) and changes no ticket row
\* and no run row; a run that then reaches the lock check of a repository
\* that was locked acquires the lock.
C24_ClearAllLocks ==
    [][/\ CleanLocks
          => /\ removed' = Cardinality({r \in Repos : locks[r] # 0})
             /\ \A r \in Repos : locks'[r] = 0
             /\ UNCHANGED <<tickets, runs>>
       /\ \A p \in Procs :
             (pc[p] = "get_lock" /\ pc'[p] # "get_lock" /\ pc'[p] # "killed"
              /\ locks[loc[p].repo] = 0)
                => pc'[p] = "set_lock"
       /\ \A p \in Procs :
             (pc[p] = "set_lock" /\ pc'[p] # "set_lock" /\ pc'[p] # "killed")
                => locks'[loc[p].repo] = p]_vars

C24_Witness ==
    \E p, q \in Procs :
       /\ pc[q] = "killed" /\ removed = 1
       /\ Holds(p) /\ locks[loc[p].repo] = p /\ runs[q].repo = loc[p].repo

\* C30: when the process of a run is killed, the lock row it wrote stays and
\* names it; as long as clean-locks is not run the row stays as it is, and
\* every later run that reaches the lock check of that repository is
\* rejected as busy (exit 2) without changing a ticket, run or lock row or a
\* worktree.
C30_StaleLockBlocks ==
    [][/\ \A p \in Procs :
             (pc[p] # "killed" /\ pc'[p] = "killed")
                => /\ locks' = locks
                   /\ Holds(p) /\ locks[loc[p].repo] = p => Stale(loc[p].repo)'
       /\ \A r \in Repos :
             Stale(r)
                => /\ locks'[r] = locks[r] \/ CleanLocks
                   /\ \A p \in Procs :
                         (/\ pc[p] = "get_lock" /\ loc[p].repo = r
                          /\ pc'[p] \notin {"get_lock", "killed"})
                            => /\ pc'[p] = "exited" /\ code'[p] = 2
                               /\ UNCHANGED <<tickets, runs, locks, tree, git>>]_vars

C30_Witness ==
    \E p, q \in Procs :
       /\ pc[q] = "killed" /\ runs[q].repo \in Repos /\ locks[runs[q].repo] = q
       /\ Returned(p) /\ code[p] = 2 /\ trace[p] = <<"search_issues", "get_lock">>
       /\ loc[p].repo = runs[q].repo

MsgRepo == "Repo mapping ambiguous or not allowed"

\* C25: a run goes past the resolution of the repository only with one
\* repository name that is in the allowlist, or with any name when the
\* allowlist is empty; otherwise the ticket's row becomes NEEDS_HUMAN with
\* "Repo mapping ambiguous or not allowed" and the exit code is 2, with no
\* lock row, no run row, no change of a worktree and no agent invocation; no
\* lock row is ever written for a repository outside a non-empty allowlist.
C25_RepoResolution ==
    \A p \in Procs :
       LET allow == inp[p].val.repo_allowlist
           repo == loc[p].repo
           allowed == repo \in Repos /\ (allow = {} \/ repo \in allow)
       IN
       /\ (pc[p] = "get_lock" \/ Has(trace[p], "get_lock")) => allowed
       /\ \A r \in Repos : locks[r] = p => (allow = {} \/ r \in allow)
       /\ ("repo_allowlist" \in inp[p].known /\ ~allowed)
             => /\ pc[p] \in {"upsert_ambiguous", "exited"}
                /\ \A i \in 1..Len(trace[p]) :
                      trace[p][i] \in {"search_issues", "upsert_ticket", "raised"}
                /\ \A r \in Repos : locks[r] # p /\ tree[r] = CleanDiff
                /\ runs[p] = NoRun
                /\ (Returned(p) /\ ~Has(trace[p], "raised"))
                      => /\ get_ticket(tickets, loc[p].jira_key) =
                               TicketState("NEEDS_HUMAN", None, None, None, 0, MsgRepo)
                         /\ code[p] = 2

C25_Witness ==
    \E p \in Procs :
       /\ Returned(p) /\ code[p] = 2 /\ loc[p].repo = "repo2"
       /\ inp[p].val.repo_allowlist = {"repo1"}
       /\ get_ticket(tickets, loc[p].jira_key).last_error = MsgRepo

\* C26: whatever the outcome of an agent invocation (exit code 0, another
\* exit code, a timeout, a timeout after which the process group does not
\* exit within the grace period), the transcript has been written to
\* transcript_path when run_agent is over.
C26_TranscriptWritten ==
    \A p \in Procs :
       (\E i \in 1..Len(trace[p]) :
           trace[p][i] \in {"run_agent:raised", "run_agent:timeout",
                            "run_agent:nofooter", "run_agent:footer"})
          => loc[p].transcript_written

\* The steps of a run that change the repository.
MutatingEvents ==
    {"fetch_and_checkout_base", "create_branch", "run_agent:raised",
     "run_agent:timeout", "run_agent:nofooter", "run_agent:footer", "format",
     "test:passed", "test:failed", "git_push"}

\* C27: in every run, each step that changes the repository (fetch and reset,
\* branch reset, agent invocation, format command, test command, push) comes
\* after the run's set_lock and before its clear_lock, and no agent process
\* the run started is left running once it has released the lock.
C27_MutationsUnderLock ==
    \A p \in Procs :
       /\ \A i \in 1..Len(trace[p]) :
             trace[p][i] \in MutatingEvents
                => /\ \E j \in 1..(i - 1) : trace[p][j] = "set_lock"
                   /\ \A j \in 1..(i - 1) : trace[p][j] # "clear_lock"
       /\ Has(trace[p], "clear_lock") => ~loc[p].agent_alive

\* C28: whenever a run that has a run row releases the lock, its run row
\* already carries a terminal status and the ticket's row is not RUNNING, so
\* that an invocation that acquires the lock after the release finds the
\* final statuses.
C28_FinalBeforeRelease ==
    [][\A p \in Procs :
          (trace'[p] = Append(trace[p], "clear_lock") /\ runs[p] # NoRun)
             => /\ runs[p].status \in TerminalStatus
                /\ runs[p].finished
                /\ get_ticket(tickets, loc[p].jira_key).status # "RUNNING"]_vars

\* C29: a configured format command runs after each agent invocation that
\* returned a footer and before the test command of that attempt; whatever
\* its exit code the run goes on to the test command (or, without tests, to
\* the guardrail checks); but when its text contains a denied substring the
\* run aborts there with a terminal failure (FAILED, exit 3): no test
\* command follows and no PR is looked up, pushed or created.
C29_FormatCommand ==
    \A p \in Procs :
       LET t == trace[p]
           denied == "fmt" \in inp[p].val.command_denylist
       IN
       ("format_command" \in inp[p].known /\ inp[p].val.format_command)
          => \A i \in 1..Len(t) :
                /\ (t[i] = "run_agent:footer" /\ i < Len(t))
                      => t[i + 1] \in {"format", "raised"}
                /\ t[i] \in {"test:passed", "test:failed"} => t[i - 1] = "format"
                /\ t[i] = "format"
                      => /\ t[i - 1] = "run_agent:footer"
                         /\ IF denied
                            THEN /\ loc[p].exc # None
                                 /\ \A j \in (i + 1)..Len(t) :
                                       t[j] \in {"finish_run", "upsert_ticket",
                                                 "clear_lock", "raised"}
                                 /\ (Returned(p) /\ ~Has(t, "raised"))
                                       => /\ runs[p].status = "FAILED"
                                          /\ code[p] = 3
                            ELSE i < Len(t)
                                    => t[i + 1] \in {"test:passed", "test:failed",
                                                     "enforce_deny_globs:blocked",
                                                     "enforce_deny_globs:ok", "raised"}

C29_Witness ==
    \E p \in Procs :
       /\ Returned(p) /\ code[p] = 0 /\ loc[p].fmt = "1"
       /\ Has(trace[p], "format") /\ Has(trace[p], "test:passed")
       /\ Has(trace[p], "git_push")

\* The numbers of agent invocations and of test executions made by p.
AgentCalls(p) ==
    Cardinality({i \in 1..Len(trace[p]) :
        trace[p][i] \in {"run_agent:raised", "run_agent:timeout",
                         "run_agent:nofooter", "run_agent:footer"}})

TestCalls(p) == Count(trace[p], "test:failed") + Count(trace[p], "test:passed")

\* At most n agent invocations and n test executions so far in p.
LoopWithin(p, n) == AgentCalls(p) <= n /\ TestCalls(p) <= n

\* C31: whatever the agent returns and the tests give at each turn, a run
\* with max_fix_attempts = N makes at most N + 1 agent invocations and at
\* most N + 1 test executions (one agent invocation and no more once the
\* loop is left when tests are not required), and when every call returns an
\* invocation that has entered the loop ends with its run in a terminal
\* status.
C31_LoopBoundAndTermination ==
    /\ [](\A p \in Procs :
            /\ IF "max_fix_attempts" \in inp[p].known
               THEN LoopWithin(p, inp[p].val.max_fix_attempts + 1)
               ELSE LoopWithin(p, 1)
            /\ ("require_tests" \in inp[p].known /\ ~inp[p].val.require_tests)
                  => /\ AgentCalls(p) <= 1 /\ TestCalls(p) = 0
                     /\ pc[p] = AfterLoop => AgentCalls(p) = 1)
    /\ \A p \in Procs :
          pc[p] = "agent" ~> (Returned(p) /\ runs[p].status \in TerminalStatus)

\* A run that made two agent invocations and two test executions, the
\* second of which passed, has ended with its PR opened.
C31_Witness ==
    \E p \in Procs :
       /\ Returned(p) /\ runs[p].status = "PR_OPENED"
       /\ inp[p].val.max_fix_attempts = 1
       /\ AgentCalls(p) = 2
       /\ Count(trace[p], "test:failed") = 1 /\ Count(trace[p], "test:passed") = 1

MsgFields == "Missing summary/description"

\* C32: a run whose ticket lacks a summary or a description and that was
\* not forced goes from the search to one upsert_ticket and its exit: it
\* acquires no lock, adds no run, touches no worktree and starts no agent,
\* and it ends with exit code 2 and the ticket NEEDS_HUMAN with last_error
\* 'Missing summary/description'; a forced run is not stopped for it.
C32_MissingFields ==
    \A p \in Procs :
       (Has(trace[p], "search_issues") /\ ~loc[p].ticket_ok) =>
          IF ~inp[p].val.force
          THEN /\ pc[p] \in {"upsert_missing", "exited"}
               /\ \A i \in 1..Len(trace[p]) :
                     trace[p][i] \in {"search_issues", "upsert_ticket", "raised"}
               /\ runs[p] = NoRun
               /\ loc[p].repo = None
               /\ \A r \in Repos : locks[r] # p /\ tree[r] = CleanDiff
               /\ (Returned(p) /\ ~Has(trace[p], "raised")) =>
                     /\ code[p] = 2
                     /\ get_ticket(tickets, loc[p].jira_key) =
                           TicketState("NEEDS_HUMAN", None, None, None, 0, MsgFields)
          ELSE /\ pc[p] # "upsert_missing"
               /\ get_ticket(tickets, loc[p].jira_key).last_error # MsgFields

\* An unforced run has ended with exit code 2 on a ticket without summary
\* or description.
C32_Witness ==
    \E p \in Procs :
       /\ Returned(p) /\ ~loc[p].ticket_ok /\ ~inp[p].val.force
       /\ code[p] = 2
       /\ get_ticket(tickets, loc[p].jira_key).last_error = MsgFields

\* The score infer_repo_from_issue has for repository r: its total when r is
\* a candidate that was scored in time, 0 otherwise.
ScoreOf(repo_allowlist, inference, r) ==
    LET repo_paths == _discover_repos(inference.root_dir, repo_allowlist) IN
    IF \E i \in 1..Len(repo_paths) : i <= inference.in_time /\ repo_paths[i] = r
    THEN inference.total[r]
    ELSE 0

\* The candidate repositories: the git repositories under root_dir, only
\* the allowlisted ones when there is an allowlist.
Candidates(repo_allowlist, inference) ==
    {r \in Repos :
        /\ \E i \in 1..Len(inference.root_dir) : inference.root_dir[i] = r
        /\ repo_allowlist # {} => r \in repo_allowlist}

\* C33: a repository returned by infer_repo_from_issue was inferred with
\* inference enabled, is a candidate (allowlisted when there is an
\* allowlist), has a score of at least min_score and a score strictly
\* greater than that of every other candidate; with inference disabled, no
\* usable tokens, no candidate, a top score below min_score or a tie at the
\* top score, nothing is returned.
C33_InferRepo ==
    \A p \in Procs :
       LET inference == inp[p].val.repo_inference
           allow == inp[p].val.repo_allowlist
           cands == Candidates(allow, inference)
           score == [r \in Repos |-> ScoreOf(allow, inference, r)]
           top == {r \in cands : \A o \in cands : score[o] <= score[r]}
       IN
       Has(trace[p], "search_issues") =>
          /\ loc[p].inferred # None =>
                /\ inference.enabled /\ inference.tokens
                /\ loc[p].inferred \in cands
                /\ score[loc[p].inferred] >= inference.min_score
                /\ \A o \in cands \ {loc[p].inferred} :
                      score[o] < score[loc[p].inferred]
          /\ (\/ ~inference.enabled
              \/ ~inference.tokens
              \/ cands = {}
              \/ Cardinality(top) > 1
              \/ \A r \in cands : score[r] < inference.min_score)
                => loc[p].inferred = None

\* A repository was inferred among two candidates with positive scores.
C33_Witness ==
    \E p \in Procs :
       LET inference == inp[p].val.repo_inference IN
       /\ loc[p].inferred = "repo2"
       /\ Len(inference.root_dir) = 2
       /\ inference.total["repo1"] > 0
       /\ inp[p].val.repo_allowlist = {}
       /\ loc[p].repo = "repo2"

\* Shell-glob matching of pattern against the whole of path, from the
\* repository root: a last segment ** stands for one or more segments.
WholePathMatch(path, pattern) ==
    /\ Len(pattern) > 0
    /\ IF pattern[Len(pattern)] = "**"
       THEN /\ Len(path) >= Len(pattern)
            /\ \A i \in 1..(Len(pattern) - 1) : SegMatch(path[i], pattern[i])
       ELSE /\ Len(path) = Len(pattern)
            /\ \A i \in 1..Len(pattern) : SegMatch(path[i], pattern[i])

\* C34: the files enforce_deny_globs blocks are the changed files whose
\* whole path, from the repository root, matches a deny glob: a glob dir/**
\* blocks every changed file under dir at any depth, and no file that only
\* has dir/<name> as the end of its path below another directory.
C34_DirGlobWholePath ==
    \A p \in Procs :
       (Has(trace[p], "enforce_deny_globs:ok")
          \/ Has(trace[p], "enforce_deny_globs:blocked")) =>
          LET diff == tree[loc[p].repo]
              globs == inp[p].val.deny_globs
              blocked == loc[p].blocked
          IN  \A i \in 1..Len(diff) :
                 (\E j \in 1..Len(blocked) : blocked[j] = diff[i][3])
                    <=> \E g \in 1..Len(globs) : WholePathMatch(diff[i][3], globs[g])

\* The content of the working branch relative to the base branch: what
\* `git push` sends and a PR shows.
BranchContent(r) == git[r].committed

\* C35: when a run has pushed its branch or created a PR, the content of the
\* branch relative to the base branch touches no file matching a deny glob
\* and is within max_files_changed and max_diff_lines, wherever the agent
\* left its changes (unstaged, staged, untracked, committed).
C35_PublishedWithinGuardrails ==
    \A p \in Procs :
       (Has(trace[p], "git_push") \/ Has(trace[p], "create_pr:created")) =>
          LET content == BranchContent(loc[p].repo) IN
          /\ \A i \in 1..Len(content) :
                ~matches_deny_glob(content[i][3], inp[p].val.deny_globs)
          /\ Len(content) <= inp[p].val.max_files_changed
          /\ SumLines(diff_numstat(content)) <= inp[p].val.max_diff_lines

\* The calls that execute a command of each kind.
Executions ==
    [git |-> {"fetch_and_checkout_base", "create_branch"},
     fmt |-> {"format"},
     test |-> {"test:passed", "test:failed"}]

\* C36: a run executes no command whose text contains a substring of the
\* configured denylist: neither the git setup commands, nor the format
\* command, nor the test command.
C36_DeniedNeverExecuted ==
    \A p \in Procs :
       "command_denylist" \in inp[p].known =>
          \A kind \in inp[p].val.command_denylist :
             \A i \in 1..Len(trace[p]) : trace[p][i] \notin Executions[kind]

\* Invocation p executes clear_lock in this step.
Releases(p) ==
    /\ Len(trace'[p]) = Len(trace[p]) + 1
    /\ trace'[p][Len(trace'[p])] = "clear_lock"

\* C37: when a run executes clear_lock(R), the lock row it deletes, if there
\* is one, names that run: a release never removes the row of another run,
\* under every interleaving of invocations and clean-locks sweeps.
C37_ReleaseOwnLockOnly ==
    [][\A p \in Procs :
          (Releases(p) /\ locks[loc[p].repo] # 0) => locks[loc[p].repo] = p]_vars

\* C38: in every state of the store, a ticket row and a run row with status
\* PR_OPENED have a non-empty pr_url, and a run row with status NEEDS_HUMAN
\* or FAILED has none.
C38_PrUrlMatchesStatus ==
    /\ \A k \in DOMAIN tickets :
          tickets[k].status = "PR_OPENED" => tickets[k].pr_url \notin {None, ""}
    /\ \A id \in DOMAIN runs :
          /\ runs[id].status = "PR_OPENED" => runs[id].pr_url \notin {None, ""}
          /\ runs[id].status \in {"NEEDS_HUMAN", "FAILED"} => runs[id].pr_url = None

\* The handler has finished as FAILED or NEEDS_HUMAN a run that had been
\* finished as PR_OPENED, while another run is stored as PR_OPENED.
C38_Witness ==
    \E p, q \in Procs :
       /\ runs[q].status = "PR_OPENED"
       /\ runs[p].status \in {"NEEDS_HUMAN", "FAILED"}
       /\ Count(trace[p], "finish_run") = 2

\* C39: when a run of a ticket has been stored as PR_OPENED and a later run
\* of the same ticket has ended NEEDS_HUMAN or FAILED, the ticket row still
\* holds a PR URL and a branch: an unsuccessful rerun erases neither.
C39_PrUrlSurvivesRerun ==
    \A q, p \in Procs :
       (/\ q < p
        /\ runs[q].status = "PR_OPENED"
        /\ runs[p].status \in {"NEEDS_HUMAN", "FAILED"}
        /\ runs[p].ticket_key = runs[q].ticket_key
        /\ \A o \in Procs : o > q => runs[o].status # "PR_OPENED")
          => /\ get_ticket(tickets, runs[q].ticket_key).pr_url = runs[q].pr_url
             /\ get_ticket(tickets, runs[q].ticket_key).branch # None

\* C40: whatever the transcript of an agent process that completed,
\* run_agent returns, with a footer or without one, and never raises; a run
\* whose transcript holds a marker line and yields no footer ends as the
\* missing-footer failure: NEEDS_HUMAN, exit code 2.
C40_BadFooterIsMissingFooter ==
    \A p \in Procs :
       LET t == inp[p].val.agent.transcript IN
       ("agent" \in inp[p].known /\ ~inp[p].val.agent.timed_out) =>
          /\ ~Has(trace[p], "run_agent:raised")
          /\ (/\ Returned(p)
              /\ \E i \in 1..Len(t) : StartsWithMarker(t[i])
              /\ loc[p].footer = <<>>
              /\ \E i \in 1..Len(trace[p]) : trace[p][i] \in AgentEvents)
                => /\ runs[p].status = "NEEDS_HUMAN"
                   /\ loc[p].exc = MsgFooter
                   /\ code[p] = 2

====
